---- MODULE Spec2Model ----
(***************************************************************************)
(* A model of the AutoCodeReview core: the TTL/LRU Cache (src/utils/       *)
(* cache.py), the analysis pipeline (src/analyzers/pipeline.py) and the    *)
(* reviewer agents (src/agents).  Each subsystem has its own variables and *)
(* its own specification; the variables of the other subsystems stay put.  *)
(***************************************************************************)
EXTENDS Integers, Sequences, FiniteSets, TLC

(***************************************************************************)
(* Bounds of the model.                                                    *)
(***************************************************************************)
\* Cache(max_size=...) of the cache under test
max_size == 2
\* the clock (time.time()) runs from 0 to MaxTime
MaxTime == 2
\* callers pass ttl=None or ttl=SomeTTL to set
SomeTTL == 1
\* a run takes at most MaxSteps steps (cache calls and clock ticks)
MaxSteps == 5
\* threads that share one Cache
NumThreads == 2
\* Cache(max_size=...) of the cache the threads share
conc_max_size == 1
\* the threads make at most MaxCalls calls together
MaxCalls == 3
\* a batch holds at most NumFiles files
NumFiles == 2
\* Cache(max_size=...) of the analysis cache
analysis_max_size == 1
\* analyze is called at most MaxAgentCalls times on an agent
MaxAgentCalls == 2
\* an LLM answer holds at most MaxSuggestions suggestions
MaxSuggestions == 1
\* an AgentState is sent at most MaxMessages messages of other agents
MaxMessages == 1
\* at most MaxAgents agents are registered with an orchestrator
MaxAgents == 3
\* a text handed to the aggregation defines at most MaxFns functions
MaxFns == 2
\* a TokenBucket of the model allows BucketRate tokens per BucketPer seconds
BucketRate == 2
BucketPer == 2
\* the clock of the LLM client is let run this far between two calls
MaxClock == 4
\* number of calls of generate and generate_stream on one client
MaxRequests == 2
\* number of consume calls on one TokenBucket
MaxConsumes == 3
\* number of files in a diff, and the line numbers a diff may add
MaxDiffFiles == 2
MaxLine == 2

\* Python's None, for a value, a ttl and a key
NoneVal == 0
NoneTTL == 0 - 1
NoKey == 0
\* one more key than the cache can hold, so that eviction happens
Keys == 1..(max_size + 1)
TTLs == {NoneTTL, SomeTTL}
\* Cache(default_ttl=None) of the cache under test
default_ttl == NoneTTL

VARIABLES
    cache,      \* the Cache object: entries (the OrderedDict, first = oldest) and stats
    now,        \* time.time()
    useSeq,     \* history: keys in the order of their most recent successful get or set
    lastOp,     \* history: the call just made, its key and what it returned
    nOps,       \* history: number of steps taken (calls and clock ticks)
    lock,       \* Cache._lock: the thread inside a "with self._lock" block, or NoThread
    thr,        \* per thread: the call it is in and its position in the call's body
    atomic,     \* history: the Cache with every call applied at once when it took the lock
    files,      \* the files to analyse: a list of [code, filename]
    callback,   \* the progress_callback that is passed along
    scanner,    \* per pipeline: what str() of its SecurityScanner prints
    phase,      \* which call is under way: one analyze_file, or a batch of either kind
    cur,        \* the position of the sequential batch in its loop over the files
    task,       \* per file: the analyze_file call on it
    acache,     \* _analysis_cache, the Cache behind SecurityScanner.scan
    seqResult,  \* what analyse_batch returned with enable_async=False
    parResult,  \* what analyse_batch returned with enable_async=True
    agentKind,  \* the AgentType of the agent object
    heap,       \* the AgentState objects made so far; a reference is a position
    selfState,  \* self.state of the agent: a reference into the heap
    calls,      \* the analyze calls made on the agent, in the order they began
    orch,       \* the orchestrator: its agents, the run under way, its result
    wrapped,    \* a function decorated with cached(): its last call
    aggr,       \* one aggregation: the stage outputs, the record, its score
    scanCall,   \* one call of SecurityScanner.scan, its temporary file, its result
    llm,        \* the LLM client: its clock, its two buckets, the call under way
    bucket,     \* one TokenBucket, the clock, and the tokens it has granted
    prCall      \* one call of analyze_pr_changes: the diff, the accessor, the result

cacheVars == <<cache, now, useSeq, lastOp, nOps>>
concVars == <<lock, thr, atomic>>
pipeVars == <<files, callback, scanner, phase, cur, task, acache, seqResult, parResult>>
agentVars == <<agentKind, heap, selfState, calls>>
vars == <<cacheVars, concVars, pipeVars, agentVars, orch, wrapped, aggr, scanCall, llm, bucket, prCall>>
\* what a sequential run of the Cache leaves alone
outsideCache == <<concVars, pipeVars, agentVars, orch, wrapped, aggr, scanCall, llm, bucket, prCall>>
\* what a concurrent run of the Cache leaves alone
outsideConc == <<useSeq, lastOp, pipeVars, agentVars, orch, wrapped, aggr, scanCall, llm, bucket, prCall>>
\* what the analysis pipeline leaves alone
outsidePipe == <<cacheVars, concVars, agentVars, orch, wrapped, aggr, scanCall, llm, bucket, prCall>>
\* what the agents leave alone
outsideAgent == <<cacheVars, concVars, pipeVars, orch, wrapped, aggr, scanCall, llm, bucket, prCall>>
\* what the orchestrator leaves alone
outsideOrch == <<cacheVars, concVars, pipeVars, agentVars, wrapped, aggr, scanCall, llm, bucket, prCall>>
\* what a call of a decorated function leaves alone
outsideWrapped == <<useSeq, lastOp, concVars, pipeVars, agentVars, orch, aggr, scanCall, llm, bucket, prCall>>
\* what an aggregation leaves alone
outsideAggr == <<cacheVars, concVars, pipeVars, agentVars, orch, wrapped, scanCall, llm, bucket, prCall>>
\* what a call of scan leaves alone
outsideScan == <<cacheVars, concVars, pipeVars, agentVars, orch, wrapped, aggr, llm, bucket, prCall>>
\* what the LLM client leaves alone
outsideLLM == <<cacheVars, concVars, pipeVars, agentVars, orch, wrapped, aggr, scanCall, bucket, prCall>>
\* what a TokenBucket on its own leaves alone
outsideBucket == <<cacheVars, concVars, pipeVars, agentVars, orch, wrapped, aggr, scanCall, llm, prCall>>
\* what a call of analyze_pr_changes leaves alone
outsidePr == <<cacheVars, concVars, pipeVars, agentVars, orch, wrapped, aggr, scanCall, llm, bucket>>

(***************************************************************************)
(* The Cache, as pure operators on a Cache object C =                      *)
(* [entries, stats, max_size, default_ttl].                                *)
(***************************************************************************)
CacheStats(h, m, e, s) == [hits |-> h, misses |-> m, evictions |-> e, size |-> s]

CacheEntry(k, v, c, l, t) ==
    [key |-> k, value |-> v, created_at |-> c, last_accessed |-> l, ttl |-> t]

NewCache(ms, dttl) ==
    [entries |-> <<>>, stats |-> CacheStats(0, 0, 0, 0), max_size |-> ms, default_ttl |-> dttl]

HasKey(entries, k) == \E i \in 1..Len(entries) : entries[i].key = k

EntryOf(entries, k) == entries[CHOOSE i \in 1..Len(entries) : entries[i].key = k]

\* del self._cache[key]
DelKey(entries, k) == SelectSeq(entries, LAMBDA e : e.key # k)

is_expired_by_creation(e, t) ==
    IF e.ttl = NoneTTL THEN FALSE ELSE t - e.created_at > e.ttl

is_expired(e, t) ==
    IF e.ttl = NoneTTL THEN FALSE ELSE t - e.last_accessed > e.ttl

\* CacheEntry.access: stamps the entry and returns it (the caller returns .value)
access(e, t) == [e EXCEPT !.last_accessed = t]

move_to_end_stays(entries, k) == entries

\* OrderedDict.move_to_end(key)
move_to_end(entries, k) == DelKey(entries, k) \o <<EntryOf(entries, k)>>

\* self._cache[key] = entry: an existing key keeps its position, a new one is appended
SetItem(entries, e) ==
    IF HasKey(entries, e.key)
    THEN [i \in 1..Len(entries) |-> IF entries[i].key = e.key THEN e ELSE entries[i]]
    ELSE Append(entries, e)

\* Cache.get: the Cache afterwards and the value returned
get(C, k, t) ==
    IF ~HasKey(C.entries, k)
    THEN [cache |-> [C EXCEPT !.stats.misses = @ + 1], ret |-> NoneVal]
    ELSE LET entry == EntryOf(C.entries, k) IN
         IF is_expired(entry, t)
         THEN LET rest == DelKey(C.entries, k) IN
              [cache |-> [C EXCEPT !.entries = rest,
                                   !.stats.misses = @ + 1,
                                   !.stats.size = Len(rest)],
               ret |-> NoneVal]
         ELSE LET moved == move_to_end(C.entries, k) IN
              [cache |-> [C EXCEPT !.entries = SetItem(moved, access(entry, t)),
                                   !.stats.hits = @ + 1],
               ret |-> entry.value]

enforce_limit_off_by_one(C, entries) ==
    IF Len(entries) > C.max_size + 1
    THEN [entries |-> Tail(entries), over |-> TRUE, evicted |-> Head(entries).key]
    ELSE [entries |-> entries, over |-> FALSE, evicted |-> NoKey]

\* the size check of Cache.set: drops the first item when over max_size
enforce_limit(C, entries) ==
    IF Len(entries) > C.max_size
    THEN [entries |-> Tail(entries), over |-> TRUE, evicted |-> Head(entries).key]
    ELSE [entries |-> entries, over |-> FALSE, evicted |-> NoKey]

\* Cache.set: the Cache afterwards and the key evicted, if any
set(C, k, v, ttl, t) ==
    LET ttl1  == IF ttl = NoneTTL THEN C.default_ttl ELSE ttl
        entry == CacheEntry(k, v, t, t, ttl1)
    IN  IF HasKey(C.entries, k)
        THEN LET es == move_to_end(SetItem(C.entries, entry), k) IN
             [cache |-> [C EXCEPT !.entries = es, !.stats.size = Len(es)],
              evicted |-> NoKey]
        ELSE LET lim == enforce_limit(C, SetItem(C.entries, entry)) IN
             [cache |-> [C EXCEPT !.entries = lim.entries,
                                  !.stats.evictions =
                                      IF lim.over THEN @ + 1 ELSE @,
                                  !.stats.size = Len(lim.entries)],
              evicted |-> lim.evicted]

\* Cache.delete: the Cache afterwards and the bool returned
delete(C, k) ==
    IF HasKey(C.entries, k)
    THEN LET rest == DelKey(C.entries, k) IN
         [cache |-> [C EXCEPT !.entries = rest, !.stats.size = Len(rest)], ret |-> TRUE]
    ELSE [cache |-> C, ret |-> FALSE]

\* Cache.clear
clear(C) == [C EXCEPT !.entries = <<>>, !.stats.size = 0]

\* Cache.cleanup_expired: the Cache afterwards and the count returned
\* cleanup_expired, removing an entry already when its TTL is reached
cleanup_expired_at_ttl(C, t) ==
    LET rest == SelectSeq(C.entries, LAMBDA e :
                    e.ttl = NoneTTL \/ t - e.last_accessed < e.ttl) IN
    [cache |-> [C EXCEPT !.entries = rest, !.stats.size = Len(rest)],
     ret |-> Len(C.entries) - Len(rest)]

cleanup_expired(C, t) ==
    LET rest == SelectSeq(C.entries, LAMBDA e : ~is_expired(e, t)) IN
    [cache |-> [C EXCEPT !.entries = rest, !.stats.size = Len(rest)],
     ret |-> Len(C.entries) - Len(rest)]

\* Cache.get_stats: a copy of the counters
get_stats(C) == CacheStats(C.stats.hits, C.stats.misses, C.stats.evictions, C.stats.size)

\* Cache.reset_stats
reset_stats(C) == [C EXCEPT !.stats = CacheStats(0, 0, 0, Len(C.entries))]

(***************************************************************************)
(* Sequential use of one Cache: any sequence of calls, with the clock      *)
(* advancing between them.                                                 *)
(***************************************************************************)
Op(name, k, ret, evicted) == [op |-> name, key |-> k, ret |-> ret, evicted |-> evicted]

\* history: k becomes the most recently used key
Touch(seq, k) == SelectSeq(seq, LAMBDA x : x # k) \o <<k>>

\* every set stores a value no earlier set stored
FreshValue == nOps + 1

CacheInit ==
    /\ cache = NewCache(max_size, default_ttl)
    /\ now = 0
    /\ useSeq = <<>>
    /\ lastOp = Op("init", NoKey, NoneVal, NoKey)
    /\ nOps = 0

CacheGet(k) ==
    /\ nOps < MaxSteps
    /\ LET r == get(cache, k, now) IN
       /\ cache' = r.cache
       /\ lastOp' = Op(IF HasKey(r.cache.entries, k) THEN "get_hit" ELSE "get_miss",
                       k, r.ret, NoKey)
       /\ useSeq' = IF HasKey(r.cache.entries, k) THEN Touch(useSeq, k) ELSE useSeq
    /\ nOps' = nOps + 1
    /\ UNCHANGED now
    /\ UNCHANGED outsideCache

CacheSet(k, v, ttl) ==
    /\ nOps < MaxSteps
    /\ LET r == set(cache, k, v, ttl, now) IN
       /\ cache' = r.cache
       /\ lastOp' = Op(IF HasKey(cache.entries, k) THEN "set_old" ELSE "set_new",
                       k, v, r.evicted)
    /\ useSeq' = Touch(useSeq, k)
    /\ nOps' = nOps + 1
    /\ UNCHANGED now
    /\ UNCHANGED outsideCache

CacheDelete(k) ==
    /\ nOps < MaxSteps
    /\ LET r == delete(cache, k) IN
       /\ cache' = r.cache
       /\ lastOp' = Op("delete", k, IF r.ret THEN 1 ELSE 0, NoKey)
    /\ nOps' = nOps + 1
    /\ UNCHANGED <<now, useSeq>>
    /\ UNCHANGED outsideCache

CacheClear ==
    /\ nOps < MaxSteps
    /\ cache' = clear(cache)
    /\ lastOp' = Op("clear", NoKey, NoneVal, NoKey)
    /\ nOps' = nOps + 1
    /\ UNCHANGED <<now, useSeq>>
    /\ UNCHANGED outsideCache

CacheCleanup ==
    /\ nOps < MaxSteps
    /\ LET r == cleanup_expired(cache, now) IN
       /\ cache' = r.cache
       /\ lastOp' = Op("cleanup", NoKey, r.ret, NoKey)
    /\ nOps' = nOps + 1
    /\ UNCHANGED <<now, useSeq>>
    /\ UNCHANGED outsideCache

\* the clock moves on between two calls
Tick ==
    /\ now < MaxTime
    /\ nOps < MaxSteps
    /\ now' = now + 1
    /\ nOps' = nOps + 1
    /\ lastOp' = Op("tick", NoKey, NoneVal, NoKey)
    /\ UNCHANGED <<cache, useSeq>>
    /\ UNCHANGED outsideCache

CacheNext ==
    \/ \E k \in Keys : CacheGet(k)
    \/ \E k \in Keys, ttl \in TTLs : CacheSet(k, FreshValue, ttl)
    \/ \E k \in Keys : CacheDelete(k)
    \/ CacheClear
    \/ CacheCleanup
    \/ Tick

(***************************************************************************)
(* Concurrent use of one Cache.  Every method body runs inside             *)
(* "with self._lock"; a thread takes the lock, executes the statements of  *)
(* the body one group at a time, and releases the lock.                    *)
(***************************************************************************)
NoThread == 0
Threads == 1..NumThreads
\* a KeyError raised inside a body (the with statement still releases the lock)
KeyErrorVal == 0 - 2
ConcKeys == 1..(conc_max_size + 1)
Methods == {"get", "set", "delete", "clear", "cleanup_expired", "get_stats", "reset_stats"}

Call(pc, op, k, v, ttl, br, ret, expect) ==
    [pc |-> pc, op |-> op, key |-> k, val |-> v, ttl |-> ttl, br |-> br,
     ret |-> ret, expect |-> expect]

IdleCall == Call(0, "none", NoKey, NoneVal, NoneTTL, "none", NoneVal, NoneVal)

can_acquire_always(l) == TRUE

\* Lock.acquire: succeeds only while no thread holds the lock
can_acquire(l) == l = NoThread

\* the call applied at once: what a sequential execution of it yields
AtomicCall(C, op, k, v, ttl, t) ==
    CASE op = "get" -> get(C, k, t)
      [] op = "set" -> [cache |-> set(C, k, v, ttl, t).cache, ret |-> NoneVal]
      [] op = "delete" -> [cache |-> delete(C, k).cache,
                           ret |-> IF delete(C, k).ret THEN 1 ELSE 0]
      [] op = "clear" -> [cache |-> clear(C), ret |-> NoneVal]
      [] op = "cleanup_expired" -> cleanup_expired(C, t)
      [] op = "get_stats" -> [cache |-> C, ret |-> get_stats(C)]
      [] op = "reset_stats" -> [cache |-> reset_stats(C), ret |-> NoneVal]

\* leave the body: the thread is past its last statement
Done(c, ret) == [c EXCEPT !.pc = 99, !.ret = ret]
Goto(c, pc, br) == [c EXCEPT !.pc = pc, !.br = br]

\* Cache.get, statement by statement (cache.py 68-82)
get_body(C, c, t) ==
    LET es == C.entries IN
    CASE c.pc = 1 ->
           IF ~HasKey(es, c.key) THEN [cache |-> C, thr |-> Goto(c, 2, "miss")]
           ELSE IF is_expired(EntryOf(es, c.key), t)
                THEN [cache |-> C, thr |-> Goto(c, 2, "expired")]
                ELSE [cache |-> C, thr |-> Goto(c, 2, "hit")]
      [] c.pc = 2 /\ c.br = "miss" ->
           [cache |-> [C EXCEPT !.stats.misses = @ + 1], thr |-> Done(c, NoneVal)]
      [] c.pc = 2 /\ c.br # "miss" /\ ~HasKey(es, c.key) ->
           [cache |-> C, thr |-> Done(c, KeyErrorVal)]
      [] c.pc = 2 /\ c.br = "expired" /\ HasKey(es, c.key) ->
           [cache |-> [C EXCEPT !.entries = DelKey(es, c.key)], thr |-> Goto(c, 3, c.br)]
      [] c.pc = 2 /\ c.br = "hit" /\ HasKey(es, c.key) ->
           [cache |-> [C EXCEPT !.entries = move_to_end(es, c.key)],
            thr |-> Goto(c, 3, c.br)]
      [] c.pc = 3 /\ c.br = "expired" ->
           [cache |-> [C EXCEPT !.stats.misses = @ + 1, !.stats.size = Len(es)],
            thr |-> Done(c, NoneVal)]
      [] c.pc = 3 /\ c.br = "hit" ->
           [cache |-> [C EXCEPT !.stats.hits = @ + 1,
                                !.entries = IF HasKey(es, c.key)
                                            THEN SetItem(es, access(EntryOf(es, c.key), t))
                                            ELSE es],
            thr |-> Done(c, IF HasKey(es, c.key) THEN EntryOf(es, c.key).value
                            ELSE c.val)]

\* Cache.set, statement by statement (cache.py 87-114)
set_body(C, c, t) ==
    LET es    == C.entries
        ttl1  == IF c.ttl = NoneTTL THEN C.default_ttl ELSE c.ttl
        entry == CacheEntry(c.key, c.val, t, t, ttl1)
    IN
    CASE c.pc = 1 /\ HasKey(es, c.key) ->
           [cache |-> [C EXCEPT !.entries = move_to_end(SetItem(es, entry), c.key)],
            thr |-> Goto(c, 3, "old")]
      [] c.pc = 1 /\ ~HasKey(es, c.key) ->
           [cache |-> [C EXCEPT !.entries = SetItem(es, entry)], thr |-> Goto(c, 2, "new")]
      [] c.pc = 2 ->
           LET lim == enforce_limit(C, es) IN
           [cache |-> [C EXCEPT !.entries = lim.entries,
                                !.stats.evictions = IF lim.over THEN @ + 1 ELSE @],
            thr |-> Goto(c, 3, c.br)]
      [] c.pc = 3 ->
           [cache |-> [C EXCEPT !.stats.size = Len(es)], thr |-> Done(c, NoneVal)]

\* delete, clear, cleanup_expired, get_stats and reset_stats, statement by
\* statement (cache.py 120-164)
other_body(C, c, t) ==
    LET es == C.entries IN
    CASE c.op = "delete" /\ c.pc = 1 ->
           IF HasKey(es, c.key)
           THEN [cache |-> [C EXCEPT !.entries = DelKey(es, c.key)], thr |-> Goto(c, 2, "del")]
           ELSE [cache |-> C, thr |-> Done(c, 0)]
      [] c.op = "delete" /\ c.pc = 2 ->
           [cache |-> [C EXCEPT !.stats.size = Len(es)], thr |-> Done(c, 1)]
      [] c.op = "clear" /\ c.pc = 1 ->
           [cache |-> [C EXCEPT !.entries = <<>>], thr |-> Goto(c, 2, "clear")]
      [] c.op = "clear" /\ c.pc = 2 ->
           [cache |-> [C EXCEPT !.stats.size = 0], thr |-> Done(c, NoneVal)]
      [] c.op = "cleanup_expired" /\ c.pc = 1 ->
           LET rest == SelectSeq(es, LAMBDA e : ~is_expired(e, t)) IN
           [cache |-> [C EXCEPT !.entries = rest],
            thr |-> [Goto(c, 2, "cleanup") EXCEPT !.val = Len(es) - Len(rest)]]
      [] c.op = "cleanup_expired" /\ c.pc = 2 ->
           [cache |-> [C EXCEPT !.stats.size = Len(es)], thr |-> Done(c, c.val)]
      [] c.op = "get_stats" ->
           [cache |-> C, thr |-> Done(c, get_stats(C))]
      [] c.op = "reset_stats" ->
           [cache |-> [C EXCEPT !.stats = CacheStats(0, 0, 0, Len(es))],
            thr |-> Done(c, NoneVal)]

\* no thread is inside a call
ConcIdle ==
    /\ lock = NoThread
    /\ thr = [t \in Threads |-> IdleCall]
    /\ atomic = NewCache(conc_max_size, default_ttl)

ConcInit ==
    /\ cache = NewCache(conc_max_size, default_ttl)
    /\ now = 0
    /\ nOps = 0
    /\ useSeq = <<>>
    /\ lastOp = Op("init", NoKey, NoneVal, NoKey)
    /\ ConcIdle

\* with self._lock: thread t enters the body of a call
Acquire(t, op, k, ttl) ==
    /\ thr[t].pc = 0
    /\ nOps < MaxCalls
    /\ can_acquire(lock)
    /\ lock' = t
    /\ LET a == AtomicCall(atomic, op, k, FreshValue, ttl, now) IN
       /\ atomic' = a.cache
       /\ thr' = [thr EXCEPT ![t] = Call(1, op, k, FreshValue, ttl, "none", NoneVal, a.ret)]
    /\ nOps' = nOps + 1
    /\ UNCHANGED <<cache, now>>
    /\ UNCHANGED outsideConc

\* thread t executes the next statements of the body it is in
Step(t) ==
    /\ thr[t].pc \in 1..3
    /\ LET c == thr[t]
           r == CASE c.op = "get" -> get_body(cache, c, now)
                  [] c.op = "set" -> set_body(cache, c, now)
                  [] OTHER -> other_body(cache, c, now)
       IN /\ cache' = r.cache
          /\ thr' = [thr EXCEPT ![t] = r.thr]
    /\ UNCHANGED <<lock, atomic, nOps, now>>
    /\ UNCHANGED outsideConc

\* the end of the with block: the lock is released and the call returns
Release(t) ==
    /\ thr[t].pc = 99
    /\ lock' = NoThread
    /\ thr' = [thr EXCEPT ![t] = IdleCall]
    /\ UNCHANGED <<cache, atomic, nOps, now>>
    /\ UNCHANGED outsideConc

\* the clock moves on between two critical sections
ConcTick ==
    /\ now < MaxTime
    /\ lock = NoThread
    /\ now' = now + 1
    /\ UNCHANGED <<cache, lock, thr, atomic, nOps>>
    /\ UNCHANGED outsideConc

ConcNext ==
    \/ \E t \in Threads, op \in Methods, k \in ConcKeys, ttl \in TTLs :
          /\ op \notin {"get", "set", "delete"} => k = 1
          /\ op # "set" => ttl = NoneTTL
          /\ Acquire(t, op, k, ttl)
    \/ \E t \in Threads : Step(t)
    \/ \E t \in Threads : Release(t)
    \/ ConcTick

(***************************************************************************)
(* The analysis pipeline (src/analyzers/pipeline.py) and what it calls:    *)
(* the parser, the complexity calculator and the cached security scan.     *)
(***************************************************************************)
\* AnalysisStatus
PENDING == "pending"
PARSING == "parsing"
ANALYZING_COMPLEXITY == "analyzing_complexity"
SCANNING_SECURITY == "scanning_security"
AGGREGATING == "aggregating"
COMPLETED == "completed"
FAILED == "failed"

\* Optional[str] = None of an error field
NoError == "None"

\* The source texts a file can hold.  The parser, radon and bandit are
\* deterministic functions of a text, given here as a table:
\*   1  one documented function f on lines 1..3, complexity 1, no finding
\*   2  a text with a syntax error
\*   3  one undocumented function g on lines 2..5, complexity 12, with a
\*      HIGH/HIGH bandit finding on line 4
\*   4  not a str at all: the parser's code.strip() raises AttributeError
Codes == 1..4
FileNames == 1..2

\* texts on which a tool fails although they parse:
\*   5  an undocumented function h on lines 1..4 with a shell call on line 2;
\*      radon raises on the text
\*   6  a documented function k on lines 1..4 of complexity 12; the run of
\*      Bandit on the text fails (it times out)
\*   7  an undocumented function m on lines 1..2; both tools fail
DegradedCodes == 5..7
TextCodes == Codes \cup DegradedCodes
radon_fails(code) == code \in {5, 7}
bandit_fails(code) == code \in {6, 7}

FunctionInfo(name, ls, le, doc) ==
    [name |-> name, line_start |-> ls, line_end |-> le, docstring |-> doc]

ParseResult(fns, ncls, lines, err) ==
    [functions |-> fns, classes |-> ncls, total_lines |-> lines, error |-> err]

Returned(v) == [raised |-> FALSE, exc |-> NoError, value |-> v]
Raised(e) == [raised |-> TRUE, exc |-> e, value |-> NoneVal]

\* PythonParser.parse
parse(code) ==
    CASE code = 1 -> Returned(ParseResult(<<FunctionInfo("f", 1, 3, TRUE)>>, 0, 3, NoError))
      [] code = 2 -> Returned(ParseResult(<<>>, 0, 0, "Syntax error at line 1: invalid syntax"))
      [] code = 3 -> Returned(ParseResult(<<FunctionInfo("g", 2, 5, FALSE)>>, 0, 5, NoError))
      [] code = 4 -> Raised("'int' object has no attribute 'strip'")
      [] code = 5 -> Returned(ParseResult(<<FunctionInfo("h", 1, 4, FALSE)>>, 0, 4, NoError))
      [] code = 6 -> Returned(ParseResult(<<FunctionInfo("k", 1, 4, TRUE)>>, 0, 4, NoError))
      [] code = 7 -> Returned(ParseResult(<<FunctionInfo("m", 1, 2, FALSE)>>, 0, 2, NoError))

FunctionComplexity(name, cc, ls, le, rank) ==
    [name |-> name, complexity |-> cc, line_start |-> ls, line_end |-> le, rank |-> rank]

FileComplexity(fns, mi) == [functions |-> fns, maintainability_index |-> mi]

calculate_error_as_empty == FileComplexity(<<>>, 100)

\* the except branch of calculate: empty metrics
calculate_error == FileComplexity(<<>>, 0)

\* ComplexityCalculator.calculate
calculate(code) ==
    CASE code = 1 -> FileComplexity(<<FunctionComplexity("f", 1, 1, 3, "A")>>, 100)
      [] code = 3 -> FileComplexity(<<FunctionComplexity("g", 12, 2, 5, "C")>>, 40)
      [] code = 6 -> FileComplexity(<<FunctionComplexity("k", 12, 1, 4, "C")>>, 40)
      [] radon_fails(code) -> calculate_error
      [] OTHER -> FileComplexity(<<>>, 0)

RECURSIVE SumComplexity(_)
SumComplexity(fns) ==
    IF fns = <<>> THEN 0 ELSE Head(fns).complexity + SumComplexity(Tail(fns))

\* FileComplexity.average_complexity, in whole units
average_complexity(cr) ==
    IF cr.functions = <<>> THEN 0 ELSE SumComplexity(cr.functions) \div Len(cr.functions)

\* FileComplexity.max_complexity
max_complexity(cr) ==
    IF cr.functions = <<>> THEN 0
    ELSE LET cs == {cr.functions[j].complexity : j \in 1..Len(cr.functions)}
         IN  CHOOSE m \in cs : \A c \in cs : c <= m

SecurityIssue(test_id, sev, conf, line, fname) ==
    [test_id |-> test_id, severity |-> sev, confidence |-> conf,
     line_number |-> line, filename |-> fname]

\* SecurityIssue.is_critical
is_critical(issue) == issue.severity = "HIGH" /\ issue.confidence = "HIGH"

\* SecurityScanner._run_bandit and _parse_bandit_output: the findings of a text
run_bandit(code, fname) ==
    CASE code = 3 -> <<SecurityIssue("B602", "HIGH", "HIGH", 4, fname)>>
      [] code = 5 -> <<SecurityIssue("B602", "HIGH", "HIGH", 2, fname)>>
      [] OTHER -> <<>>

\* the errors list of _run_bandit
bandit_errors(code) ==
    IF bandit_fails(code) THEN <<"Bandit scan timed out (60s limit)">> ELSE <<>>

\* SecurityScanner._calculate_metrics
calculate_metrics(issues) ==
    [total_issues |-> Len(issues),
     high_severity |-> Len(SelectSeq(issues, LAMBDA x : x.severity = "HIGH")),
     critical_issues |-> Len(SelectSeq(issues, is_critical))]

\* the body of SecurityScanner.scan: the SecurityScanResult for a text
SecurityScanResult(code, fname) ==
    LET issues == run_bandit(code, fname)
    IN  [issues |-> issues, metrics |-> calculate_metrics(issues),
         errors |-> bandit_errors(code)]

\* A SecurityScanResult object is held by reference; the reference names the
\* call (text, filename) that built the object.
ScanRef(code, fname) == (code - 1) * Cardinality(FileNames) + fname
Deref(ref) ==
    LET c == CHOOSE c \in TextCodes : \E f \in FileNames : ScanRef(c, f) = ref
        f == CHOOSE f \in FileNames : ScanRef(c, f) = ref
    IN  SecurityScanResult(c, f)

\* cached(): the default key f"{func.__name__}:{str(args)}:{str(kwargs)}" of a
\* call scan(self, code, filename); str(self) names the scanner object
cache_key_without_filename(self, code, fname) == <<"scan", self, code>>

cache_key_without_code(self, code, fname) == <<"scan", self, fname>>

cache_key(self, code, fname) == <<"scan", self, code, fname>>

\* AnalysisPipeline(complexity_threshold=5)
complexity_threshold == 5
\* AnalysisProgress(total_steps=4)
total_steps == 4
\* cache_analysis_result(ttl=1800)
analysis_ttl == 1800

FunctionAnalysis(pf, complexity, rank, issues, complex, changed) ==
    [name |-> pf.name, line_start |-> pf.line_start, line_end |-> pf.line_end,
     docstring |-> pf.docstring, complexity |-> complexity, complexity_rank |-> rank,
     security_issues |-> issues, is_complex |-> complex,
     is_undocumented |-> ~pf.docstring,
     has_security_issues |-> Len(issues) > 0,
     has_critical_security_issues |-> \E j \in 1..Len(issues) : is_critical(issues[j]),
     is_changed |-> changed]

\* FileAnalysis(filename=...) with every other field at its default
FileAnalysis(fname) ==
    [filename |-> fname, source_code |-> NoneVal, security_result |-> NoneVal,
     functions |-> <<>>, total_lines |-> 0, total_functions |-> 0, total_classes |-> 0,
     average_complexity |-> 0, max_complexity |-> 0, maintainability_index |-> 0,
     total_security_issues |-> 0, critical_security_issues |-> 0,
     high_severity_issues |-> 0, error |-> NoError, is_changed |-> FALSE,
     changed_line_numbers |-> {}]

\* FileAnalysis(filename=..., error=...)
ErrorAnalysis(fname, err) == [FileAnalysis(fname) EXCEPT !.error = err]

Min(a, b) == IF a < b THEN a ELSE b
Max(a, b) == IF a > b THEN a ELSE b

\* FileAnalysis.quality_score
quality_score(fa) ==
    IF fa.error # NoError THEN 0
    ELSE LET base == IF fa.maintainability_index # 0 THEN fa.maintainability_index ELSE 50
             s1 == IF fa.average_complexity > 10
                   THEN base - (fa.average_complexity - 10) * 2 ELSE base
             s2 == s1 - fa.critical_security_issues * 10 - fa.high_severity_issues * 5
         IN  Max(0, Min(100, s2))

\* AnalysisPipeline._aggregate_results
\* func_changed, with the last line of the function left out
func_changed_but_last_line(pf, changed_lines) ==
    \E l \in changed_lines : pf.line_start <= l /\ l < pf.line_end

\* func_changed = any(line_start <= line <= line_end for line in changed_lines)
\* if changed_lines, else False
func_changed(pf, changed_lines) ==
    \E l \in changed_lines : pf.line_start <= l /\ l <= pf.line_end

aggregate_results(fname, pr, cr, ref, changed_lines) ==
    LET sr == Deref(ref)
        FnOf(pf) ==
            LET cs == SelectSeq(cr.functions, LAMBDA c : c.name = pf.name)
                issues == SelectSeq(sr.issues, LAMBDA x :
                              pf.line_start <= x.line_number /\ x.line_number <= pf.line_end)
                changed == func_changed(pf, changed_lines)
            IN  IF cs = <<>>
                THEN FunctionAnalysis(pf, 0, "A", issues, FALSE, changed)
                ELSE FunctionAnalysis(pf, cs[1].complexity, cs[1].rank, issues,
                                      cs[1].complexity > complexity_threshold, changed)
    IN  [FileAnalysis(fname) EXCEPT
            !.security_result = ref,
            !.functions = [j \in 1..Len(pr.functions) |-> FnOf(pr.functions[j])],
            !.total_lines = pr.total_lines,
            !.total_functions = Len(pr.functions),
            !.total_classes = pr.classes,
            !.average_complexity = average_complexity(cr),
            !.max_complexity = max_complexity(cr),
            !.maintainability_index = cr.maintainability_index,
            !.total_security_issues = sr.metrics.total_issues,
            !.critical_security_issues = sr.metrics.critical_issues,
            !.high_severity_issues = sr.metrics.high_severity,
            !.is_changed = changed_lines # {},
            !.changed_line_numbers = changed_lines]

\* AnalysisProgress(status=PENDING, total_steps=4, completed_steps=0, percentage=0)
AnalysisProgress ==
    [status |-> PENDING, completed_steps |-> 0, percentage |-> 0]

\* AnalysisProgress.update(status, step, message); step tells whether a step is named
update(p, status, step) ==
    LET done == IF step THEN p.completed_steps + 1 ELSE p.completed_steps
    IN  [status |-> status, completed_steps |-> done,
         percentage |-> (done * 100) \div total_steps]

\* if parse_result.error:
parse_failed_ignored(pr) == FALSE

parse_failed(pr) == pr.error # NoError /\ pr.error # ""

\* progress_callback=None
NoCallback == [present |-> FALSE, raisesAt |-> {}]
\* a progress_callback, and the statuses at which it raises
Callback(raisesAt) == [present |-> TRUE, raisesAt |-> raisesAt]
\* the statuses a callback can be shown
NotifiedStatuses ==
    {PENDING, ANALYZING_COMPLEXITY, SCANNING_SECURITY, AGGREGATING, COMPLETED, FAILED}

FileData(code, fname) == [code |-> code, filename |-> fname]

\* file_data.get('changed_lines'): None when the key is absent, and None
\* and the empty set both count as no changed line
changed_lines_of(file_data) ==
    IF "changed_lines" \in DOMAIN file_data THEN file_data.changed_lines ELSE {}

\* one call of analyze_file: its position, its locals and what it did so far
TaskInit ==
    [pc |-> "start", progress |-> AnalysisProgress, parse_result |-> NoneVal,
     complexity_result |-> NoneVal, security_result |-> NoneVal,
     file_analysis |-> NoneVal, ret |-> NoneVal, exc |-> NoError, log |-> <<>>]

Event(ev, p) == [ev |-> ev, status |-> p.status, pct |-> p.percentage]
Logged(t, ev) == [t EXCEPT !.log = Append(@, Event(ev, t.progress))]

\* progress.update(status=..., step=..., message=...)
Advance(t, status) ==
    Logged([t EXCEPT !.progress = update(t.progress, status, TRUE)], "update")

\* if progress_callback: progress_callback(progress)
Notify(t) == IF callback.present THEN Logged(t, "callback") ELSE t
CallbackRaises(t) == callback.present /\ t.progress.status \in callback.raisesAt

\* an exception inside the try block: control goes to the except branch
Throw(t, e) == [t EXCEPT !.pc = "fail", !.exc = e]
Finished(t) == t.pc \in {"returned", "raised"}

\* the calls of analyze_file that may take a step now
Runnable(i) ==
    /\ i \in 1..Len(files)
    /\ \/ phase \in {"single", "sequential"} /\ i = cur
       \/ phase = "parallel"
\* the SecurityScanner of the pipeline that runs now
Scanner == IF phase = "parallel" THEN scanner.parallel ELSE scanner.sequential

\* lines 284-295: the progress object and the first callback, outside the try
Start(i) ==
    /\ Runnable(i) /\ task[i].pc = "start"
    /\ LET t == Notify(Logged(task[i], "update"))
       IN  task' = [task EXCEPT ![i] =
                IF CallbackRaises(t)
                THEN [t EXCEPT !.pc = "raised", !.exc = "callback"]
                ELSE [t EXCEPT !.pc = "parse"]]
    /\ UNCHANGED <<files, callback, scanner, phase, cur, acache, seqResult, parResult>>
    /\ UNCHANGED outsidePipe

\* lines 298-312: step 1, and the early return on a parse error
Parse(i) ==
    /\ Runnable(i) /\ task[i].pc = "parse"
    /\ LET t == Logged(Advance(task[i], PARSING), "parse")
           r == parse(files[i].code)
       IN  task' = [task EXCEPT ![i] =
                IF r.raised THEN Throw(t, r.exc)
                ELSE IF parse_failed(r.value)
                THEN [t EXCEPT !.pc = "returned", !.parse_result = r.value,
                               !.ret = ErrorAnalysis(files[i].filename, r.value.error)]
                ELSE [t EXCEPT !.pc = "complexity", !.parse_result = r.value]]
    /\ UNCHANGED <<files, callback, scanner, phase, cur, acache, seqResult, parResult>>
    /\ UNCHANGED outsidePipe

\* lines 314-322: step 2
Complexity(i) ==
    /\ Runnable(i) /\ task[i].pc = "complexity"
    /\ LET t == Notify(Advance(task[i], ANALYZING_COMPLEXITY))
       IN  task' = [task EXCEPT ![i] =
                IF CallbackRaises(t) THEN Throw(t, "callback")
                ELSE [Logged(t, "complexity") EXCEPT
                         !.pc = "scan", !.complexity_result = calculate(files[i].code)]]
    /\ UNCHANGED <<files, callback, scanner, phase, cur, acache, seqResult, parResult>>
    /\ UNCHANGED outsidePipe

\* lines 324-333 and the wrapper of cached(): step 3 up to cache.get(cache_key)
ScanLookup(i) ==
    /\ Runnable(i) /\ task[i].pc = "scan"
    /\ LET t == Notify(Advance(task[i], SCANNING_SECURITY))
           r == get(acache, cache_key(Scanner, files[i].code, files[i].filename), now)
       IN  IF CallbackRaises(t)
           THEN /\ task' = [task EXCEPT ![i] = Throw(t, "callback")]
                /\ acache' = acache
           ELSE /\ acache' = r.cache
                /\ task' = [task EXCEPT ![i] =
                       IF r.ret # NoneVal
                       THEN [Logged(t, "scan") EXCEPT !.pc = "aggregate", !.security_result = r.ret]
                       ELSE [Logged(t, "scan") EXCEPT !.pc = "scan_run"]]
    /\ UNCHANGED <<files, callback, scanner, phase, cur, seqResult, parResult>>
    /\ UNCHANGED outsidePipe

\* cached(): result = func(*args, **kwargs), the scan itself
ScanRun(i) ==
    /\ Runnable(i) /\ task[i].pc = "scan_run"
    /\ task' = [task EXCEPT ![i] =
           [Logged(task[i], "bandit") EXCEPT
               !.pc = "scan_store",
               !.security_result = ScanRef(files[i].code, files[i].filename)]]
    /\ UNCHANGED <<files, callback, scanner, phase, cur, acache, seqResult, parResult>>
    /\ UNCHANGED outsidePipe

\* cached(): cache.set(cache_key, result, ttl)
ScanStore(i) ==
    /\ Runnable(i) /\ task[i].pc = "scan_store"
    /\ acache' = set(acache, cache_key(Scanner, files[i].code, files[i].filename),
                     task[i].security_result, analysis_ttl, now).cache
    /\ task' = [task EXCEPT ![i].pc = "aggregate"]
    /\ UNCHANGED <<files, callback, scanner, phase, cur, seqResult, parResult>>
    /\ UNCHANGED outsidePipe

\* lines 336-353: step 4
Aggregate(i) ==
    /\ Runnable(i) /\ task[i].pc = "aggregate"
    /\ LET t == Notify(Advance(task[i], AGGREGATING))
           fa == aggregate_results(files[i].filename, t.parse_result,
                                   t.complexity_result, t.security_result,
                                   changed_lines_of(files[i]))
       IN  task' = [task EXCEPT ![i] =
                IF CallbackRaises(t) THEN Throw(t, "callback")
                ELSE [Logged(t, "aggregate") EXCEPT
                         !.pc = "complete",
                         !.file_analysis = [fa EXCEPT !.source_code = files[i].code]]]
    /\ UNCHANGED <<files, callback, scanner, phase, cur, acache, seqResult, parResult>>
    /\ UNCHANGED outsidePipe

\* lines 355-370: the last update and the return of the record
Complete(i) ==
    /\ Runnable(i) /\ task[i].pc = "complete"
    /\ LET t == Notify(Advance(task[i], COMPLETED))
       IN  task' = [task EXCEPT ![i] =
                IF CallbackRaises(t) THEN Throw(t, "callback")
                ELSE [t EXCEPT !.pc = "returned", !.ret = t.file_analysis]]
    /\ UNCHANGED <<files, callback, scanner, phase, cur, acache, seqResult, parResult>>
    /\ UNCHANGED outsidePipe

\* lines 372-385: the except branch; its callback is not guarded
Fail(i) ==
    /\ Runnable(i) /\ task[i].pc = "fail"
    /\ LET t == Notify(Logged([task[i] EXCEPT !.progress = update(@, FAILED, FALSE)],
                              "update"))
       IN  task' = [task EXCEPT ![i] =
                IF CallbackRaises(t)
                THEN [t EXCEPT !.pc = "raised", !.exc = "callback"]
                ELSE [t EXCEPT !.pc = "returned",
                               !.ret = ErrorAnalysis(files[i].filename, t.exc)]]
    /\ UNCHANGED <<files, callback, scanner, phase, cur, acache, seqResult, parResult>>
    /\ UNCHANGED outsidePipe

\* what analyse_batch gives back: AnalysisBatchResult.files, or an exception
BatchResult(recs) == [raised |-> FALSE, files |-> recs]
BatchRaised == [raised |-> TRUE, files |-> <<>>]

\* the inputs of a single analyze_file call and of a batch
FileInputs == {FileData(c, f) : c \in Codes, f \in FileNames}
Callbacks == {NoCallback} \cup {Callback(S) : S \in SUBSET NotifiedStatuses}
BatchCallbacks ==
    {NoCallback, Callback({SCANNING_SECURITY}), Callback({PENDING}),
     Callback({SCANNING_SECURITY, FAILED})}
FileLists(n) == UNION {[1..m -> FileInputs] : m \in 0..n}

\* no analysis is under way
PipeIdle ==
    /\ files = <<>>
    /\ callback = NoCallback
    /\ scanner = [sequential |-> 1, parallel |-> 1]
    /\ phase = "done"
    /\ cur = 1
    /\ task = <<>>
    /\ acache = NewCache(analysis_max_size, analysis_ttl)
    /\ seqResult = BatchResult(<<>>)
    /\ parResult = BatchResult(<<>>)

\* analyze_file(code, filename, None, progress_callback) on a new pipeline
PipeInit ==
    /\ files \in [1..1 -> FileInputs]
    /\ callback \in Callbacks
    /\ scanner = [sequential |-> 1, parallel |-> 1]
    /\ phase = "single"
    /\ cur = 1
    /\ task = [i \in 1..1 |-> TaskInit]
    /\ acache = NewCache(analysis_max_size, analysis_ttl)
    /\ seqResult = BatchResult(<<>>)
    /\ parResult = BatchResult(<<>>)

\* analyse_batch(files, progress_callback) on a pipeline with enable_async=False
\* and then on one with enable_async=True; the two SecurityScanner objects
\* may or may not print alike (the address in str(self) can be used again)
BatchInit ==
    /\ files \in FileLists(NumFiles)
    /\ callback \in BatchCallbacks
    /\ scanner \in {[sequential |-> 1, parallel |-> p] : p \in 1..2}
    /\ phase = "sequential"
    /\ cur = 1
    /\ task = [i \in 1..Len(files) |-> TaskInit]
    /\ acache = NewCache(analysis_max_size, analysis_ttl)
    /\ seqResult = BatchResult(<<>>)
    /\ parResult = BatchResult(<<>>)

\* lines 440-448: the parallel pipeline makes one task per file
StartParallel == [i \in 1..Len(files) |-> TaskInit]

\* lines 418-425: results.append(result), and on to the next file
SeqCollect ==
    /\ phase = "sequential" /\ cur <= Len(files) /\ task[cur].pc = "returned"
    /\ seqResult' = BatchResult(Append(seqResult.files, task[cur].ret))
    /\ cur' = cur + 1
    /\ UNCHANGED <<files, callback, scanner, phase, task, acache, parResult>>
    /\ UNCHANGED outsidePipe

\* an exception that leaves analyze_file leaves the loop and analyse_batch
SeqRaise ==
    /\ phase = "sequential" /\ cur <= Len(files) /\ task[cur].pc = "raised"
    /\ seqResult' = BatchRaised
    /\ phase' = "parallel"
    /\ task' = StartParallel
    /\ UNCHANGED <<files, callback, scanner, cur, acache, parResult>>
    /\ UNCHANGED outsidePipe

\* lines 426-429: the sequential batch returns
SeqReturn ==
    /\ phase = "sequential" /\ cur > Len(files)
    /\ phase' = "parallel"
    /\ task' = StartParallel
    /\ UNCHANGED <<files, callback, scanner, cur, acache, seqResult, parResult>>
    /\ UNCHANGED outsidePipe

\* lines 451-456: asyncio.gather gives the records in the order of the tasks
ParReturn ==
    /\ phase = "parallel"
    /\ \A i \in 1..Len(files) : task[i].pc = "returned"
    /\ parResult' = BatchResult([i \in 1..Len(files) |-> task[i].ret])
    /\ phase' = "done"
    /\ UNCHANGED <<files, callback, scanner, cur, task, acache, seqResult>>
    /\ UNCHANGED outsidePipe

\* asyncio.gather without return_exceptions: the first exception of a task
\* is raised to the caller at once
ParRaise ==
    /\ phase = "parallel"
    /\ \E i \in 1..Len(files) : task[i].pc = "raised"
    /\ parResult' = BatchRaised
    /\ phase' = "done"
    /\ UNCHANGED <<files, callback, scanner, cur, task, acache, seqResult>>
    /\ UNCHANGED outsidePipe

\* the same file analysed twice by one pipeline, after any one earlier call
RepeatInputs ==
    {[code |-> c, filename |-> f, changed_lines |-> ch] :
        c \in Codes, f \in FileNames, ch \in {{}, {2}}}

RepeatInit ==
    /\ \E f \in RepeatInputs :
          files \in {<<f, f>>} \cup {<<g, f, f>> : g \in FileInputs}
    /\ callback \in {NoCallback, Callback({})}
    /\ scanner = [sequential |-> 1, parallel |-> 1]
    /\ phase = "sequential"
    /\ cur = 1
    /\ task = [i \in 1..Len(files) |-> TaskInit]
    /\ acache = NewCache(analysis_max_size, analysis_ttl)
    /\ seqResult = BatchResult(<<>>)
    /\ parResult = BatchResult(<<>>)

\* time.time() moves on by more than the TTL of the analysis cache
Sleep ==
    /\ now <= analysis_ttl
    /\ now' = now + analysis_ttl + 1
    /\ UNCHANGED <<cache, useSeq, lastOp, nOps>>
    /\ UNCHANGED outsideCache

\* analyze_file on a text that parses, without or with a callback that returns
DegradedInit ==
    /\ files \in [1..1 -> {FileData(c, f) : c \in TextCodes, f \in FileNames}]
    /\ callback \in {NoCallback, Callback({})}
    /\ scanner = [sequential |-> 1, parallel |-> 1]
    /\ phase = "single"
    /\ cur = 1
    /\ task = [i \in 1..1 |-> TaskInit]
    /\ acache = NewCache(analysis_max_size, analysis_ttl)
    /\ seqResult = BatchResult(<<>>)
    /\ parResult = BatchResult(<<>>)

AnalyzeFileStep(i) ==
    \/ Start(i)
    \/ Parse(i)
    \/ Complexity(i)
    \/ ScanLookup(i)
    \/ ScanRun(i)
    \/ ScanStore(i)
    \/ Aggregate(i)
    \/ Complete(i)
    \/ Fail(i)

PipeNext == \E i \in 1..Len(files) : AnalyzeFileStep(i)

RepeatNext ==
    \/ \E i \in 1..Len(files) : AnalyzeFileStep(i)
    \/ SeqCollect
    \/ Sleep

BatchNext ==
    \/ \E i \in 1..Len(files) : AnalyzeFileStep(i)
    \/ SeqCollect
    \/ SeqRaise
    \/ SeqReturn
    \/ ParReturn
    \/ ParRaise

(***************************************************************************)
(* cached(cache, key_func, ttl): a decorated function of two arguments.    *)
(***************************************************************************)
\* the arguments of a call: (x, y)
Args == (0..1) \X (0..1)

\* what the decorated function returns: None or a value
Results == {NoneVal, 1}

\* key_func of the decorator: None, key_func(x, y) = f"sum:{x+y}", or the
\* key_func of cache_by_hash
KeyFuncs == {"None", "sum", "hash"}

\* file_handler.calculate_hash: the MD5 hex digest of the content; the two
\* contents of the model are the texts "0" and "1"
calculate_hash(content) ==
    IF content = 0 THEN "cfcd208495d565ef66e7dff9f98764da"
    ELSE "c4ca4238a0b923820dcc509a6f75849b"

\* key_func of cache_by_hash, for a call with positional arguments:
\* f"hash:{content_hash}:{str(args[1:]) + str(kwargs)}"
key_func_by_hash(args) == <<"hash", calculate_hash(args[1]), <<args[2]>>, "{}">>

\* the cache key of a call
cache_key_of(key_func, name, args) ==
    CASE key_func = "sum" -> <<"sum", args[1] + args[2]>>
      [] key_func = "hash" -> key_func_by_hash(args)
      [] OTHER -> <<name, args>>

NoCall == [args |-> <<0, 0>>, executed |-> FALSE, ret |-> NoneVal]

\* wrapper(*args): the cache afterwards, whether func was executed, and the
\* value returned
wrapper(C, w, args, t) ==
    LET key == cache_key_of(w.key_func, "func", args)
        r   == get(C, key, t)
    IN  IF r.ret # NoneVal
        THEN [cache |-> r.cache, executed |-> FALSE, ret |-> r.ret]
        ELSE LET result == w.func[args] IN
             [cache |-> set(r.cache, key, result, w.ttl, t).cache,
              executed |-> TRUE, ret |-> result]

\* no function is decorated
WrappedIdle ==
    wrapped = [func |-> [a \in Args |-> NoneVal], key_func |-> "None", ttl |-> NoneTTL,
               last |-> NoCall]

\* @cached(cache, key_func, ttl) def func(x, y): ...
WrappedInit ==
    \E f \in [Args -> Results], kf \in KeyFuncs, ttl \in TTLs :
        wrapped = [func |-> f, key_func |-> kf, ttl |-> ttl, last |-> NoCall]

\* func(x, y), through the wrapper
WrappedCall(args) ==
    /\ nOps < MaxSteps
    /\ LET r == wrapper(cache, wrapped, args, now) IN
       /\ cache' = r.cache
       /\ wrapped' = [wrapped EXCEPT !.last =
              [args |-> args, executed |-> r.executed, ret |-> r.ret]]
    /\ nOps' = nOps + 1
    /\ UNCHANGED now
    /\ UNCHANGED outsideWrapped

WrappedNext ==
    \/ \E args \in Args : WrappedCall(args)
    \/ Tick

(***************************************************************************)
(* _aggregate_results and quality_score on the outputs of the three        *)
(* stages, for texts that define up to MaxFns functions one after the      *)
(* other, some of them under the same name.                                *)
(***************************************************************************)
\* the names a function is defined under
FnNames == {"f", "g"}

\* the k-th function of a text takes three lines
SlotStart(k) == 3 * k - 2
SlotEnd(k) == 3 * k

\* radon's rank of a complexity (A: 1-5, B: 6-10, C: 11-20, ...)
RankOf(cc) == IF cc <= 5 THEN "A" ELSE IF cc <= 10 THEN "B" ELSE "C"

\* what the parser reports of a text whose k-th function is named names[k]
ParsedFunctions(names) ==
    [k \in 1..Len(names) |-> FunctionInfo(names[k], SlotStart(k), SlotEnd(k), TRUE)]

\* what radon reports: the complexity cc[k] of the k-th function, and no
\* entry for it where cc[k] = 0
RECURSIVE ComplexityEntries(_, _, _)
ComplexityEntries(names, cc, k) ==
    IF k > Len(names) THEN <<>>
    ELSE (IF cc[k] = 0 THEN <<>>
          ELSE <<FunctionComplexity(names[k], cc[k], SlotStart(k), SlotEnd(k), RankOf(cc[k]))>>)
         \o ComplexityEntries(names, cc, k + 1)

\* the inputs of one _aggregate_results call
AggregationInputs ==
    {[pr |-> ParseResult(ParsedFunctions(names), 0, 3 * Len(names), NoError),
      cr |-> FileComplexity(ComplexityEntries(names, cc, 1), mi),
      ref |-> ScanRef(code, 1),
      changed_lines |-> ch] :
        names \in UNION {[1..n -> FnNames] : n \in 0..MaxFns},
        cc \in [1..MaxFns -> {0, 1, 12}],
        mi \in {0, 10, 100},
        code \in {1, 3},
        ch \in {{}, {3}, {5, 6}, {7}}}

\* no aggregation is under way
AggrIdle ==
    aggr = [pc |-> "idle", pr |-> ParseResult(<<>>, 0, 0, NoError),
            cr |-> FileComplexity(<<>>, 0), ref |-> ScanRef(1, 1), changed_lines |-> {},
            out |-> FileAnalysis(1), score |-> 0]

\* the three stages have returned
AggrInit ==
    \E in \in AggregationInputs :
        aggr = [pc |-> "staged", pr |-> in.pr, cr |-> in.cr, ref |-> in.ref,
                changed_lines |-> in.changed_lines, out |-> FileAnalysis(1), score |-> 0]

\* file_analysis = self._aggregate_results(filename, parse_result, ...)
AggregateResults ==
    /\ aggr.pc = "staged"
    /\ aggr' = [aggr EXCEPT !.pc = "aggregated",
                    !.out = aggregate_results(1, aggr.pr, aggr.cr, aggr.ref,
                                              aggr.changed_lines)]
    /\ UNCHANGED outsideAggr

\* file_analysis.quality_score
QualityScore ==
    /\ aggr.pc = "aggregated"
    /\ aggr' = [aggr EXCEPT !.pc = "scored", !.score = quality_score(aggr.out)]
    /\ UNCHANGED outsideAggr

AggrNext ==
    \/ AggregateResults
    \/ QualityScore

(***************************************************************************)
(* SecurityScanner.scan and _run_bandit, step by step: the temporary file, *)
(* the run of the tool and what comes back from it.                        *)
(***************************************************************************)
\* the texts scanned: 0 is the empty text, 1 and 3 as above
ScanCodes == {0, 1, 3}

\* what the run of the tool comes to:
\*   findings       stdout holds a JSON object with the results
\*   stderr_only    no stdout, a message on stderr
\*   silent         no stdout, no stderr
\*   timeout        subprocess.TimeoutExpired after 60 s
\*   not_installed  FileNotFoundError: there is no bandit executable
\*   bad_json       stdout is not JSON: json.JSONDecodeError
\*   json_list      stdout is JSON but no object: data.get raises
\*   write_fails    f.write(code) raises after the file was created
ToolOutcomes ==
    {"findings", "stderr_only", "silent", "timeout", "not_installed", "bad_json",
     "json_list", "write_fails"}

\* the lines of a text: len(code.splitlines())
LinesOf(code) == parse(code).value.total_lines

\* SecurityMetrics
SecurityMetrics(lines, issues) ==
    [total_lines_scanned |-> lines] @@ calculate_metrics(issues)

\* the body of the try block of _run_bandit from subprocess.run on, and the
\* except clauses: the raw findings and the errors list returned
bandit_outcome(tool, code, fname) ==
    CASE tool = "findings" -> [raw |-> run_bandit(code, fname), errors |-> <<>>]
      [] tool = "stderr_only" -> [raw |-> <<>>, errors |-> <<"stderr">>]
      [] tool = "silent" -> [raw |-> <<>>, errors |-> <<>>]
      [] tool = "timeout" ->
           [raw |-> <<>>, errors |-> <<"Bandit scan timed out (60s limit)">>]
      [] tool = "not_installed" ->
           [raw |-> <<>>, errors |-> <<"Bandit not found. Install with: pip install bandit">>]
      [] tool = "bad_json" ->
           [raw |-> <<>>, errors |-> <<"Failed to parse Bandit JSON output">>]
      [] OTHER -> [raw |-> <<>>, errors |-> <<"Error running Bandit">>]

unlink_only_after_success(c) == c.on_disk /\ (c.temp_file = "None" \/ c.errors # <<>>)

\* the finally block of _run_bandit: whether a temporary file is left
unlink(c) == c.on_disk /\ c.temp_file = "None"

\* no scan is under way
ScanIdle ==
    scanCall = [pc |-> "idle", code |-> 0, filename |-> 1, tool |-> "silent",
                temp_file |-> "None", on_disk |-> FALSE, raw |-> <<>>, errors |-> <<>>,
                result |-> [issues |-> <<>>, metrics |-> SecurityMetrics(0, <<>>),
                            errors |-> <<>>]]

\* scanner.scan(code, filename), and what the tool will do when it is run
ScanInit ==
    \E code \in ScanCodes, fname \in FileNames, tool \in ToolOutcomes :
        scanCall = [pc |-> "scan", code |-> code, filename |-> fname, tool |-> tool,
                    temp_file |-> "None", on_disk |-> FALSE, raw |-> <<>>, errors |-> <<>>,
                    result |-> [issues |-> <<>>, metrics |-> SecurityMetrics(0, <<>>),
                                errors |-> <<>>]]

\* scan, lines 360-365: an empty text is answered at once
ScanEnter ==
    /\ scanCall.pc = "scan"
    /\ scanCall' = [scanCall EXCEPT !.pc = IF scanCall.code = 0 THEN "returned" ELSE "write"]
    /\ UNCHANGED outsideScan

\* _run_bandit, lines 417-425: the text is written to a temporary file
WriteTemp ==
    /\ scanCall.pc = "write"
    /\ scanCall' = IF scanCall.tool = "write_fails"
                   THEN [scanCall EXCEPT !.pc = "run", !.on_disk = TRUE]
                   ELSE [scanCall EXCEPT !.pc = "run", !.on_disk = TRUE,
                                         !.temp_file = "tmp.py"]
    /\ UNCHANGED outsideScan

\* _run_bandit, lines 427-484: the tool is run and its output read, or an
\* except clause fills the errors list
RunBandit ==
    /\ scanCall.pc = "run"
    /\ LET r == bandit_outcome(scanCall.tool, scanCall.code, scanCall.filename)
       IN  scanCall' = [scanCall EXCEPT !.pc = "finally", !.raw = r.raw, !.errors = r.errors]
    /\ UNCHANGED outsideScan

\* _run_bandit, lines 486-491: the finally block
Finally ==
    /\ scanCall.pc = "finally"
    /\ scanCall' = [scanCall EXCEPT !.pc = "metrics", !.on_disk = unlink(scanCall)]
    /\ UNCHANGED outsideScan

\* scan, lines 371-398: the issues, the metrics and the result
ScanFinish ==
    /\ scanCall.pc = "metrics"
    /\ scanCall' = [scanCall EXCEPT
           !.pc = "returned",
           !.result = [issues |-> scanCall.raw,
                       metrics |-> SecurityMetrics(LinesOf(scanCall.code), scanCall.raw),
                       errors |-> scanCall.errors]]
    /\ UNCHANGED outsideScan

ScanNext ==
    \/ ScanEnter
    \/ WriteTemp
    \/ RunBandit
    \/ Finally
    \/ ScanFinish

(***************************************************************************)
(* The reviewer agents (src/agents): one agent object, its AgentState      *)
(* objects on a heap, and the analyze calls made on it.                    *)
(***************************************************************************)
\* AgentType
AgentKinds ==
    {"code_analyzer", "security", "performance", "documentation", "test", "style"}

\* AgentState(agent_type=...)
AgentState(kind) ==
    [agent_type |-> kind, messages |-> <<>>, suggestions |-> <<>>,
     completed |-> FALSE, error |-> NoError]

\* an AgentSuggestion, named by the call that made it and its place in that call
AgentSuggestion(kind, c, origin, n) ==
    [agent_type |-> kind, call |-> c, origin |-> origin, n |-> n]

\* an AgentMessage; call = 0 for a message that came from another agent
AgentMessage(sender, c) == [sender |-> sender, recipient |-> "None", call |-> c]

\* what llm_client.generate does when call_llm awaits it: it returns a
\* response, or raises its terminal error once the retries are used up
LLMReplies == {"content", "terminal_error"}

\* BaseAgent.call_llm: the content of the response; any exception of the
\* client is logged and the empty string is returned
call_llm(reply) == IF reply = "terminal_error" THEN "" ELSE "content"

\* what one analyze call meets: whether the file gives the agent nothing to
\* look at, how many suggestions the static checks and the LLM answer hold
\* (for an empty answer: how many the fallback of the agent makes up), what
\* the LLM client does, and where inside the try block an exception is
\* raised, if anywhere
CallInputs ==
    [early : BOOLEAN, static : 0..1, llm : 0..MaxSuggestions, reply : LLMReplies,
     fault : {"none", "before_llm", "after_llm"}]

\* the agents that return at once when the file gives them nothing to look at
\* (security_agent.py 74-83 still asks the LLM for a general check)
ReturnsEarly(kind) == kind \in {"security", "performance", "documentation", "test"}
\* the agents that add suggestions before they call the LLM
\* (style_agent.py 114-116, test_agent.py 81-87)
HasStaticChecks(kind) == kind \in {"style", "test"}
\* test_agent.py 110: the name edge_case_suggestions is not defined
AlwaysFailsAfterLLM(kind) == kind = "test"
\* the agents whose _parse_*_response makes no suggestion of an empty answer
\* ("if response.strip()"); the two others fall back on suggestions of their
\* own (code_analyzer_agent.py 209-212, security_agent.py 228-230)
NothingFromEmptyAnswer(kind) ==
    kind \in {"performance", "documentation", "test", "style"}

\* the except branch of analyze: all agents but one set completed = False
except_branch_all_alike(kind, st, e) == [st EXCEPT !.error = e, !.completed = FALSE]

except_branch(kind, st, e) ==
    IF kind = "code_analyzer"
    THEN [st EXCEPT !.completed = TRUE, !.error = e]
    ELSE [st EXCEPT !.error = e, !.completed = FALSE]

reset_state_in_place(h, ref, kind) ==
    [heap |-> [h EXCEPT ![ref] = AgentState(kind)], ref |-> ref]

\* BaseAgent.reset_state: self.state = AgentState(agent_type=self.agent_type)
reset_state(h, ref, kind) ==
    [heap |-> Append(h, AgentState(kind)), ref |-> Len(h) + 1]

\* for j in 1..n: self.state.add_suggestion(...)
AddSuggestions(st, kind, c, origin, n) ==
    [st EXCEPT !.suggestions = @ \o [j \in 1..n |-> AgentSuggestion(kind, c, origin, j)]]

\* the inputs that differ for an agent of this kind: only some agents have
\* static checks or an early return, an early return comes before the static
\* checks and meets no exception, and an exception before the LLM call
\* leaves no time for suggestions
Applies(kind, input) ==
    /\ HasStaticChecks(kind) \/ input.static = 0
    /\ ReturnsEarly(kind) \/ ~input.early
    /\ input.early => input.fault = "none" /\ input.static = 0
    /\ input.early /\ kind # "security" => input.llm = 0
    /\ input.fault = "before_llm" => input.static = 0 /\ input.llm = 0
    /\ AlwaysFailsAfterLLM(kind) => input.fault # "after_llm"
    /\ input.reply = "terminal_error" =>
          /\ input.fault = "none"
          /\ ~(input.early /\ kind # "security")
          /\ NothingFromEmptyAnswer(kind) => input.llm = 0

\* one analyze call: its position, its input, the exception it caught and
\* the AgentState it returned (a heap reference, 0 before the return)
AgentCall(input) == [pc |-> "try", input |-> input, exc |-> NoError, ret |-> 0]

\* no agent is at work
AgentIdle ==
    /\ agentKind = "code_analyzer"
    /\ heap = <<AgentState("code_analyzer")>>
    /\ selfState = 1
    /\ calls = <<>>

\* BaseAgent.__init__ of an agent of any kind
AgentInit ==
    /\ agentKind \in AgentKinds
    /\ heap = <<AgentState(agentKind)>>
    /\ selfState = 1
    /\ calls = <<>>

\* analyze calls do not overlap: a call starts when the one before has returned
NoCallActive == \A c \in 1..Len(calls) : calls[c].pc = "done"

\* analyze is entered: self.reset_state()
AgentEnter(input) ==
    /\ Len(calls) < MaxAgentCalls
    /\ NoCallActive
    /\ Applies(agentKind, input)
    /\ LET r == reset_state(heap, selfState, agentKind)
       IN  heap' = r.heap /\ selfState' = r.ref
    /\ calls' = Append(calls, AgentCall(input))
    /\ UNCHANGED agentKind
    /\ UNCHANGED outsideAgent

\* the try block up to the first await on the LLM, or up to an early return
AgentTry(c) ==
    /\ c \in 1..Len(calls) /\ calls[c].pc = "try"
    /\ LET in == calls[c].input
           st == AddSuggestions(heap[selfState], agentKind, c, "static", in.static)
       IN  IF in.fault = "before_llm"
           THEN /\ calls' = [calls EXCEPT ![c].pc = "except", ![c].exc = "before_llm"]
                /\ heap' = heap
           ELSE IF in.early /\ agentKind # "security"
           THEN /\ calls' = [calls EXCEPT ![c].pc = "return"]
                /\ heap' = [heap EXCEPT ![selfState] = [st EXCEPT !.completed = TRUE]]
           ELSE /\ calls' = [calls EXCEPT ![c].pc = "await"]
                /\ heap' = [heap EXCEPT ![selfState] = st]
    /\ UNCHANGED <<agentKind, selfState>>
    /\ UNCHANGED outsideAgent

\* call_llm has returned (the event loop runs one coroutine at a time, so no
\* other call is between two of its awaits): the suggestions of the answer,
\* or of the fallback for an empty answer, are added, the summary message is
\* sent and completed is set
AgentResume(c) ==
    /\ c \in 1..Len(calls) /\ calls[c].pc = "await"
    /\ \A d \in 1..Len(calls) : calls[d].pc \in {"await", "done"}
    /\ LET in == calls[c].input
           origin == IF call_llm(in.reply) = "" THEN "fallback" ELSE "llm"
           st == AddSuggestions(heap[selfState], agentKind, c, origin, in.llm)
       IN  IF in.early
           THEN /\ calls' = [calls EXCEPT ![c].pc = "return"]
                /\ heap' = [heap EXCEPT ![selfState] = [st EXCEPT !.completed = TRUE]]
           ELSE IF in.fault = "after_llm" \/ AlwaysFailsAfterLLM(agentKind)
           THEN /\ calls' = [calls EXCEPT ![c].pc = "except", ![c].exc = "after_llm"]
                /\ heap' = [heap EXCEPT ![selfState] = st]
           ELSE /\ calls' = [calls EXCEPT ![c].pc = "return"]
                /\ heap' = [heap EXCEPT ![selfState] =
                       [st EXCEPT !.messages = Append(@, AgentMessage(agentKind, c)),
                                  !.completed = TRUE]]
    /\ UNCHANGED <<agentKind, selfState>>
    /\ UNCHANGED outsideAgent

\* except Exception as e: the error is recorded on self.state
AgentExcept(c) ==
    /\ c \in 1..Len(calls) /\ calls[c].pc = "except"
    /\ heap' = [heap EXCEPT ![selfState] = except_branch(agentKind, @, calls[c].exc)]
    /\ calls' = [calls EXCEPT ![c].pc = "return"]
    /\ UNCHANGED <<agentKind, selfState>>
    /\ UNCHANGED outsideAgent

\* return self.state
AgentReturn(c) ==
    /\ c \in 1..Len(calls) /\ calls[c].pc = "return"
    /\ calls' = [calls EXCEPT ![c].pc = "done", ![c].ret = selfState]
    /\ UNCHANGED <<agentKind, heap, selfState>>
    /\ UNCHANGED outsideAgent

\* analyze is called while earlier calls on the same agent wait for the LLM
\* (asyncio.gather of two analyze coroutines of one agent): self.reset_state()
AgentEnterMeanwhile(input) ==
    /\ Len(calls) < MaxAgentCalls
    /\ ~NoCallActive
    /\ \A d \in 1..Len(calls) : calls[d].pc \in {"await", "done"}
    /\ Applies(agentKind, input)
    /\ LET r == reset_state(heap, selfState, agentKind)
       IN  heap' = r.heap /\ selfState' = r.ref
    /\ calls' = Append(calls, AgentCall(input))
    /\ UNCHANGED agentKind
    /\ UNCHANGED outsideAgent

\* BaseAgent.receive_messages, between two analyze calls: a broadcast message
\* of another agent is added to self.state
ReceiveMessages ==
    /\ NoCallActive
    /\ Len(heap[selfState].messages) < MaxMessages
    /\ heap' = [heap EXCEPT ![selfState].messages = Append(@, AgentMessage("other", 0))]
    /\ UNCHANGED <<agentKind, selfState, calls>>
    /\ UNCHANGED outsideAgent

AgentNext ==
    \/ \E input \in CallInputs : AgentEnter(input)
    \/ \E c \in 1..Len(calls) : AgentTry(c)
    \/ \E c \in 1..Len(calls) : AgentResume(c)
    \/ \E c \in 1..Len(calls) : AgentExcept(c)
    \/ \E c \in 1..Len(calls) : AgentReturn(c)
    \/ ReceiveMessages

\* the calls may overlap
OverlapNext ==
    \/ AgentNext
    \/ \E input \in CallInputs : AgentEnterMeanwhile(input)

(***************************************************************************)
(* The orchestration layer (src/agents/orchestrator.py, imported by        *)
(* src/agents/__init__.py and used by tests/test_agents_day.py; the file   *)
(* itself is not part of the sources at hand, so this section follows the  *)
(* specification, section 4.7).                                            *)
(***************************************************************************)
\* the kinds of agent registered here: one whose except branch reports
\* completed = True and one whose except branch reports completed = False
OrchKinds == {"code_analyzer", "security"}

\* what a registered agent will do when it is run: whether it meets an
\* exception inside analyze and whether it has a suggestion to make
AgentPlans == [kind : OrchKinds, fails : BOOLEAN, gives : BOOLEAN]

\* the AgentState that agent number i returns from analyze
analyze(i, plan) ==
    LET st == AddSuggestions(AgentState(plan.kind), plan.kind, i, "llm",
                             IF plan.gives THEN 1 ELSE 0)
    IN  IF plan.fails
        THEN except_branch(plan.kind, st, "after_llm")
        ELSE [st EXCEPT !.messages = Append(@, AgentMessage(plan.kind, i)),
                        !.completed = TRUE]

\* WorkflowState
WorkflowState(completed, failed, suggestions, messages) ==
    [completed_agents |-> completed, failed_agents |-> failed,
     all_suggestions |-> suggestions, all_messages |-> messages]

\* the concatenation of the sequences of a sequence
RECURSIVE Concat(_)
Concat(ss) == IF ss = <<>> THEN <<>> ELSE Head(ss) \o Concat(Tail(ss))

\* the positions of states, in order, whose state has completed = flag
RECURSIVE Positions(_, _, _)
Positions(states, from, flag) ==
    IF from > Len(states) THEN <<>>
    ELSE (IF states[from].completed = flag THEN <<from>> ELSE <<>>)
         \o Positions(states, from + 1, flag)

\* the order in which the returned states are merged
merge_order_as_finished(n, finished) == finished

\* stable merge order: the order of registration
merge_order(n, finished) == [i \in 1..n |-> i]

\* the merged view of the agents' states, taken in the given order
merge(states, order) ==
    LET inOrder == [j \in 1..Len(order) |-> states[order[j]]]
        done == Positions(inOrder, 1, TRUE)
        failed == Positions(inOrder, 1, FALSE)
    IN  WorkflowState([j \in 1..Len(done) |-> order[done[j]]],
                      [j \in 1..Len(failed) |-> order[failed[j]]],
                      Concat([j \in 1..Len(order) |-> inOrder[j].suggestions]),
                      Concat([j \in 1..Len(order) |-> inOrder[j].messages]))

NoWorkflow == WorkflowState(<<>>, <<>>, <<>>, <<>>)

\* an orchestrator with no agent registered
OrchIdle ==
    orch = [enable_parallel |-> FALSE, agents |-> <<>>, pc |-> "register",
            states |-> <<>>, finished |-> <<>>, workflow |-> NoWorkflow]

\* AgentOrchestrator(llm_client, enable_parallel=...)
OrchInit ==
    \E par \in BOOLEAN : orch = [enable_parallel |-> par, agents |-> <<>>, pc |-> "register",
            states |-> <<>>, finished |-> <<>>, workflow |-> NoWorkflow]

\* orchestrator.register_agent(agent)
RegisterAgent(plan) ==
    /\ orch.pc = "register"
    /\ Len(orch.agents) < MaxAgents
    /\ orch' = [orch EXCEPT !.agents = Append(@, plan)]
    /\ UNCHANGED outsideOrch

\* orchestrate(file_analysis) begins: no agent has returned yet
Orchestrate ==
    /\ orch.pc = "register"
    /\ orch.agents # <<>>
    /\ orch' = [orch EXCEPT !.pc = "running",
                            !.states = [i \in 1..Len(orch.agents) |-> AgentState("none")]]
    /\ UNCHANGED outsideOrch

\* agent i returns from analyze; in sequential mode the agents run one
\* after the other, in parallel mode they finish in any order
AgentFinishes(i) ==
    /\ orch.pc = "running"
    /\ i \in 1..Len(orch.agents)
    /\ \A j \in 1..Len(orch.finished) : orch.finished[j] # i
    /\ orch.enable_parallel \/ i = Len(orch.finished) + 1
    /\ orch' = [orch EXCEPT !.states[i] = analyze(i, orch.agents[i]),
                            !.finished = Append(@, i)]
    /\ UNCHANGED outsideOrch

\* every agent has returned: the states are merged and orchestrate returns
Merge ==
    /\ orch.pc = "running"
    /\ Len(orch.finished) = Len(orch.agents)
    /\ orch' = [orch EXCEPT !.pc = "returned",
                            !.workflow = merge(orch.states,
                                               merge_order(Len(orch.agents), orch.finished))]
    /\ UNCHANGED outsideOrch

OrchNext ==
    \/ \E plan \in AgentPlans : RegisterAgent(plan)
    \/ Orchestrate
    \/ \E i \in 1..MaxAgents : AgentFinishes(i)
    \/ Merge

(***************************************************************************)
(* The LLM client (src/llm/groq_client.py): the TokenBucket, and generate   *)
(* with its retries.  Time is in seconds.                                   *)
(***************************************************************************)
\* TokenBucket.__init__ at time t
TokenBucket(rate, per, t) ==
    [rate |-> rate, per |-> per, allowance |-> rate, last_check |-> t]

\* TokenBucket.consume(tokens) entered at time current: the bucket as it is
\* left, and the time slept inside the call (0: none).  With rate = per the
\* arithmetic of the code is exact in integers.
consume(b, tokens, current) ==
    LET elapsed == current - b.last_check
        refilled == b.allowance + (elapsed * b.rate) \div b.per
        allowance == IF refilled > b.rate THEN b.rate ELSE refilled
    IN  IF allowance < tokens
        THEN [bucket |-> [b EXCEPT !.last_check = current, !.allowance = 0],
              wait_time |-> ((tokens - allowance) * b.per) \div b.rate]
        ELSE [bucket |-> [b EXCEPT !.last_check = current,
                                   !.allowance = allowance - tokens],
              wait_time |-> 0]

\* one TokenBucket on its own: no consume call has been made
BucketIdle ==
    bucket = [b |-> TokenBucket(BucketRate, BucketPer, 0), t |-> 0, granted |-> <<>>]

\* await bucket.consume(tokens), from its entry to its return: the lock is
\* held all along, so calls do not overlap; the grant is noted with the time
\* at which consume returned
Consume(tokens) ==
    /\ Len(bucket.granted) < MaxConsumes
    /\ LET r == consume(bucket.b, tokens, bucket.t)
       IN  /\ bucket.t + r.wait_time <= MaxClock + BucketPer
           /\ bucket' = [b |-> r.bucket, t |-> bucket.t + r.wait_time,
                         granted |-> Append(bucket.granted,
                                            [at |-> bucket.t + r.wait_time,
                                             tokens |-> tokens])]
    /\ UNCHANGED outsideBucket

\* a second passes with no consume call under way
BucketTick ==
    /\ bucket.t < MaxClock
    /\ bucket' = [bucket EXCEPT !.t = @ + 1]
    /\ UNCHANGED outsideBucket

BucketNext ==
    \/ \E tokens \in 1..BucketRate : Consume(tokens)
    \/ BucketTick

\* _retry_request(func, max_retries=3)
max_retries == 3

\* what self.client.post and raise_for_status do in one attempt: a response,
\* HTTP 429, another HTTP error status, or another exception (a timeout)
Replies == {"ok", "429", "http_error", "exception"}

\* delay *= 2, without the doubling
next_delay_same(delay) == delay

\* delay *= 2
next_delay(delay) == delay * 2

\* sum(len(m["content"]) for m in messages) // 4, for the messages at hand
EstimatedTokens == 0..BucketRate

NoRequest == [op |-> "none", pc |-> "done", tokens |-> 0, attempt |-> 0, delay |-> 0,
              result |-> "none", log |-> <<>>]

\* GroqClient.__init__: the two buckets (30 per 60 s and 14400 per 60 s in the
\* code), and no call yet
LLMIdle ==
    llm = [t |-> 0,
           request_bucket |-> TokenBucket(BucketRate, BucketPer, 0),
           token_bucket |-> TokenBucket(BucketRate, BucketPer, 0),
           made |-> 0,
           call |-> NoRequest]

\* what the call under way has done so far, one entry per consume, per
\* request sent and per sleep of _retry_request
Noted(e) == llm.call.log \o <<e>>

\* client.generate(messages) or client.generate_stream(messages) is called
LLMCall(op, tokens) ==
    /\ llm.call.pc = "done"
    /\ llm.made < MaxRequests
    /\ llm' = [llm EXCEPT !.made = @ + 1,
                          !.call = [op |-> op, pc |-> "request_bucket", tokens |-> tokens,
                                    attempt |-> 0, delay |-> 0, result |-> "none",
                                    log |-> <<>>]]
    /\ UNCHANGED outsideLLM

\* await self.request_bucket.consume(1), in generate and in generate_stream
ConsumeRequest ==
    /\ llm.call.pc = "request_bucket"
    /\ LET r == consume(llm.request_bucket, 1, llm.t)
       IN  llm' = [llm EXCEPT !.request_bucket = r.bucket,
                              !.t = @ + r.wait_time,
                              !.call.log = Noted([ev |-> "consume", on |-> "request_bucket", n |-> 1]),
                              !.call.pc = IF llm.call.op = "generate"
                                          THEN "token_bucket" ELSE "stream"]
    /\ UNCHANGED outsideLLM

\* await self.token_bucket.consume(estimated_tokens), in generate only; then
\* _retry_request is entered: delay = 1
ConsumeTokens ==
    /\ llm.call.pc = "token_bucket"
    /\ LET r == consume(llm.token_bucket, llm.call.tokens, llm.t)
       IN  llm' = [llm EXCEPT !.token_bucket = r.bucket,
                              !.t = @ + r.wait_time,
                              !.call.log = Noted([ev |-> "consume", on |-> "token_bucket",
                                                  n |-> llm.call.tokens]),
                              !.call.delay = 1,
                              !.call.pc = "attempt"]
    /\ UNCHANGED outsideLLM

\* one turn of the loop of _retry_request up to its sleep: await func()
Attempt(reply) ==
    /\ llm.call.pc = "attempt"
    /\ LET sent == Noted([ev |-> "send", on |-> reply, n |-> llm.call.attempt + 1])
       IN  llm' = [llm EXCEPT
                      !.call.log = sent,
                      !.call.pc = IF reply \in {"ok", "http_error"} THEN "done" ELSE "sleep",
                      !.call.result = CASE reply = "ok" -> "response"
                                        [] reply = "http_error" -> "HTTPStatusError"
                                        [] OTHER -> "none"]
    /\ UNCHANGED outsideLLM

\* await asyncio.sleep(delay); delay *= 2; the next turn of the loop, or
\* raise Exception("Max retries exceeded") after the last one
Backoff ==
    /\ llm.call.pc = "sleep"
    /\ LET last == llm.call.attempt + 1 >= max_retries
       IN  llm' = [llm EXCEPT
                      !.t = @ + llm.call.delay,
                      !.call.log = Noted([ev |-> "sleep", on |-> "retry", n |-> llm.call.delay]),
                      !.call.delay = next_delay(@),
                      !.call.attempt = @ + 1,
                      !.call.pc = IF last THEN "done" ELSE "attempt",
                      !.call.result = IF last THEN "Max retries exceeded" ELSE "none"]
    /\ UNCHANGED outsideLLM

\* generate_stream: async with self.client.stream("POST", ...), once
Stream(reply) ==
    /\ llm.call.pc = "stream"
    /\ llm' = [llm EXCEPT
                  !.call.log = Noted([ev |-> "send", on |-> reply, n |-> 1]),
                  !.call.pc = "done",
                  !.call.result = IF reply = "exception" THEN "exception" ELSE "chunks"]
    /\ UNCHANGED outsideLLM

\* a second passes between two calls
LLMTick ==
    /\ llm.call.pc = "done"
    /\ llm.t < MaxClock
    /\ llm' = [llm EXCEPT !.t = @ + 1]
    /\ UNCHANGED outsideLLM

\* the steps of a call that is under way
LLMStep ==
    \/ ConsumeRequest
    \/ ConsumeTokens
    \/ \E reply \in Replies : Attempt(reply)
    \/ Backoff
    \/ \E reply \in Replies : Stream(reply)

LLMNext ==
    \/ \E op \in {"generate", "generate_stream"}, tokens \in EstimatedTokens :
          LLMCall(op, tokens)
    \/ LLMStep
    \/ LLMTick

(***************************************************************************)
(* analyze_pr_changes (pipeline.py) on the result of DiffParser.parse_diff  *)
(* (src/utils/diff_parser.py).  A well-formed diff text is given by what it *)
(* says of each file; a file name is <<stem, suffix>>.                      *)
(***************************************************************************)
DiffFileNames == {<<"script", ".py">>, <<"util", ".py">>, <<"readme", ".md">>}

\* what a diff says of one file: its name, whether the file is modified,
\* deleted or binary, and the target line numbers of its "+" lines
DiffEntries ==
    [filename : DiffFileNames, status : {"modified", "deleted", "binary"},
     added : SUBSET (1..MaxLine)]

\* DiffParser._parse_file; _detect_modified_lines returns []
ChangedFile(entry) ==
    [filename |-> entry.filename,
     is_deleted_file |-> entry.status = "deleted",
     is_binary |-> entry.status = "binary",
     added_lines |-> IF entry.status = "binary" THEN {} ELSE entry.added,
     modified_lines |-> {}]

\* DiffParser.parse_diff
parse_diff(diff_text) ==
    [files |-> [i \in 1..Len(diff_text) |-> ChangedFile(diff_text[i])]]

\* the property DiffResult.get_python_files: its value, a list
get_python_files(diff_result) ==
    SelectSeq(diff_result.files, LAMBDA file : file.filename[2] = ".py")

\* the property ChangedFile.changed_line_numbers: its value, a set
changed_line_numbers(file) == file.added_lines \cup file.modified_lines

\* value(): the value of either property is a list or a set, and calling it
\* raises TypeError ("'list' object is not callable")
call_value(value) == Raised("TypeError")

\* get_file_content(filename), an accessor that fails on some files
get_file_content(readable, filename) ==
    IF filename \in readable THEN Returned(1) ELSE Raised("OSError")

\* the loop over python_files: deleted and binary files are passed over, and
\* so is a file for which something in the try block raises
RECURSIVE files_to_analyze(_, _)
files_to_analyze(python_files, readable) ==
    IF python_files = <<>> THEN <<>>
    ELSE LET file_change == Head(python_files)
             rest == files_to_analyze(Tail(python_files), readable)
             code == get_file_content(readable, file_change.filename)
             lines == call_value(changed_line_numbers(file_change))
         IN  IF file_change.is_deleted_file \/ file_change.is_binary THEN rest
             ELSE IF code.raised \/ lines.raised THEN rest
             ELSE <<[code |-> code.value, filename |-> file_change.filename,
                     changed_lines |-> lines.value]>> \o rest

\* AnalysisPipeline.analyze_pr_changes, up to the files it hands to
\* analyse_batch; AnalysisBatchResult has no field analysis_time
analyze_pr_changes(diff_text, readable) ==
    LET diff_result == parse_diff(diff_text)
        python_files == call_value(get_python_files(diff_result))
    IN  IF python_files.raised THEN python_files
        ELSE IF python_files.value = <<>> THEN Raised("TypeError")
        ELSE Returned(files_to_analyze(python_files.value, readable))

\* no call of analyze_pr_changes
PrIdle ==
    prCall = [diff_text |-> <<>>, readable |-> {}, pc |-> "done", result |-> Raised(NoError)]

\* pipeline.analyze_pr_changes(diff_text, get_file_content) is called
PrInit ==
    /\ prCall \in [diff_text : UNION {[1..n -> DiffEntries] : n \in 0..MaxDiffFiles},
                readable : SUBSET {<<"script", ".py">>, <<"util", ".py">>},
                pc : {"call"}, result : {Raised(NoError)}]
    /\ \A i, j \in 1..Len(prCall.diff_text) :
          i # j => prCall.diff_text[i].filename # prCall.diff_text[j].filename

\* the call runs to its end
AnalyzePrChanges ==
    /\ prCall.pc = "call"
    /\ prCall' = [prCall EXCEPT !.pc = "done",
                        !.result = analyze_pr_changes(prCall.diff_text, prCall.readable)]
    /\ UNCHANGED outsidePr

PrNext == AnalyzePrChanges

(***************************************************************************)
(* Specifications                                                          *)
(***************************************************************************)
SpecCacheInit ==
    CacheInit /\ ConcIdle /\ PipeIdle /\ AgentIdle /\ OrchIdle /\ WrappedIdle /\ AggrIdle /\ ScanIdle /\ LLMIdle /\ BucketIdle /\ PrIdle

SpecCache == SpecCacheInit /\ [][CacheNext]_vars

SpecCacheConcInit ==
    ConcInit /\ PipeIdle /\ AgentIdle /\ OrchIdle /\ WrappedIdle /\ AggrIdle /\ ScanIdle /\ LLMIdle /\ BucketIdle /\ PrIdle

SpecCacheConc == SpecCacheConcInit /\ [][ConcNext]_vars

\* one analyze_file call
SpecPipelineInit ==
    CacheInit /\ ConcIdle /\ PipeInit /\ AgentIdle /\ OrchIdle /\ WrappedIdle /\ AggrIdle /\ ScanIdle /\ LLMIdle /\ BucketIdle /\ PrIdle

SpecPipeline == SpecPipelineInit /\ [][PipeNext]_vars

\* a batch, analysed by a sequential and then by a parallel pipeline
SpecBatchInit ==
    CacheInit /\ ConcIdle /\ BatchInit /\ AgentIdle /\ OrchIdle /\ WrappedIdle /\ AggrIdle /\ ScanIdle /\ LLMIdle /\ BucketIdle /\ PrIdle

SpecBatch == SpecBatchInit /\ [][BatchNext]_vars

\* one agent and the analyze calls on it, one after the other
SpecAgentInit ==
    CacheInit /\ ConcIdle /\ PipeIdle /\ AgentInit /\ OrchIdle /\ WrappedIdle /\ AggrIdle /\ ScanIdle /\ LLMIdle /\ BucketIdle /\ PrIdle

SpecAgent == SpecAgentInit /\ [][AgentNext]_vars

\* one agent whose analyze calls may overlap at their awaits
SpecOverlapInit ==
    CacheInit /\ ConcIdle /\ PipeIdle /\ AgentInit /\ OrchIdle /\ WrappedIdle /\ AggrIdle /\ ScanIdle /\ LLMIdle /\ BucketIdle /\ PrIdle

SpecOverlap == SpecOverlapInit /\ [][OverlapNext]_vars

\* one LLM client and the calls made on it, one after the other
SpecLLMInit ==
    CacheInit /\ ConcIdle /\ PipeIdle /\ AgentIdle /\ OrchIdle /\ WrappedIdle /\ AggrIdle /\ ScanIdle /\ LLMIdle /\ BucketIdle /\ PrIdle

SpecLLM == SpecLLMInit /\ [][LLMNext]_vars

\* the same, where the event loop does not leave a call waiting for ever
SpecLLMFair == SpecLLM /\ WF_vars(LLMStep)

\* one TokenBucket and the consume calls made on it
SpecBucketInit ==
    CacheInit /\ ConcIdle /\ PipeIdle /\ AgentIdle /\ OrchIdle /\ WrappedIdle /\ AggrIdle /\ ScanIdle /\ LLMIdle /\ BucketIdle /\ PrIdle

SpecBucket == SpecBucketInit /\ [][BucketNext]_vars

\* one call of analyze_pr_changes on any diff of a few files
SpecPrInit ==
    CacheInit /\ ConcIdle /\ PipeIdle /\ AgentIdle /\ OrchIdle /\ WrappedIdle /\ AggrIdle /\ ScanIdle /\ LLMIdle /\ BucketIdle /\ PrInit

SpecPr == SpecPrInit /\ [][PrNext]_vars

\* one orchestrator: agents are registered, then orchestrate runs them
SpecOrchestratorInit ==
    CacheInit /\ ConcIdle /\ PipeIdle /\ AgentIdle /\ OrchInit /\ WrappedIdle /\ AggrIdle /\ ScanIdle /\ LLMIdle /\ BucketIdle /\ PrIdle

SpecOrchestrator == SpecOrchestratorInit /\ [][OrchNext]_vars

\* one decorated function, called again and again while time passes
SpecCachedInit ==
    CacheInit /\ ConcIdle /\ PipeIdle /\ AgentIdle /\ OrchIdle /\ WrappedInit /\ AggrIdle /\ ScanIdle /\ LLMIdle /\ BucketIdle /\ PrIdle

SpecCached == SpecCachedInit /\ [][WrappedNext]_vars

\* one aggregation of stage outputs, and the score of the record
SpecAggregateInit ==
    CacheInit /\ ConcIdle /\ PipeIdle /\ AgentIdle /\ OrchIdle /\ WrappedIdle /\ AggrInit /\ ScanIdle /\ LLMIdle /\ BucketIdle /\ PrIdle

SpecAggregate == SpecAggregateInit /\ [][AggrNext]_vars

\* analyze_file called twice on the same input while time passes
SpecRepeatInit ==
    CacheInit /\ ConcIdle /\ RepeatInit /\ AgentIdle /\ OrchIdle /\ WrappedIdle /\ AggrIdle /\ ScanIdle /\ LLMIdle /\ BucketIdle /\ PrIdle

SpecRepeat == SpecRepeatInit /\ [][RepeatNext]_vars

\* one analyze_file call on a text on which a tool may fail
SpecDegradedInit ==
    CacheInit /\ ConcIdle /\ DegradedInit /\ AgentIdle /\ OrchIdle /\ WrappedIdle /\ AggrIdle /\ ScanIdle /\ LLMIdle /\ BucketIdle /\ PrIdle

SpecDegraded == SpecDegradedInit /\ [][PipeNext]_vars

\* one call of scan, whatever the tool does
SpecScanInit ==
    CacheInit /\ ConcIdle /\ PipeIdle /\ AgentIdle /\ OrchIdle /\ WrappedIdle /\ AggrIdle /\ ScanInit /\ LLMIdle /\ BucketIdle /\ PrIdle

SpecScan == SpecScanInit /\ [][ScanNext]_vars

KeySet(C) == {C.entries[i].key : i \in 1..Len(C.entries)}

\* the key of S whose most recent successful get or set is the oldest
OldestUsed(seq, S) ==
    seq[CHOOSE i \in 1..Len(seq) :
            /\ seq[i] \in S
            /\ \A j \in 1..Len(seq) : seq[j] \in S => i <= j]

\* C1: a set of a new key into a full cache removes exactly one entry, the one
\* whose most recent successful get or set is the oldest, and stores the new key.
C1_LRUEviction ==
    [][(lastOp'.op = "set_new" /\ Len(cache.entries) = max_size) =>
          LET victim == OldestUsed(useSeq, KeySet(cache)) IN
          /\ lastOp'.evicted = victim
          /\ KeySet(cache') = (KeySet(cache) \ {victim}) \cup {lastOp'.key}
          /\ Len(cache'.entries) = max_size]_vars

\* the first key ever written (it holds the first value) survived an eviction:
\* a get moved it behind the keys written after it
C1_Witness ==
    /\ lastOp.op = "set_new"
    /\ lastOp.evicted # NoKey
    /\ cache.stats.hits > 0
    /\ \E k \in KeySet(cache) : EntryOf(cache.entries, k).value = 1

\* C2: a get of a stored entry with a TTL returns its value iff the time since its
\* last access does not exceed the TTL, and then restarts the window; otherwise
\* it returns None and removes the entry.  An entry without TTL is always returned.
C2_ExpiryFromLastAccess ==
    [][\A k \in Keys :
          (lastOp'.op \in {"get_hit", "get_miss"} /\ lastOp'.key = k
              /\ HasKey(cache.entries, k)) =>
          LET e == EntryOf(cache.entries, k) IN
          IF e.ttl = NoneTTL \/ now - e.last_accessed <= e.ttl
          THEN /\ lastOp'.ret = e.value
               /\ HasKey(cache'.entries, k)
               /\ EntryOf(cache'.entries, k).last_accessed = now
               /\ EntryOf(cache'.entries, k).value = e.value
          ELSE /\ lastOp'.ret = NoneVal
               /\ ~HasKey(cache'.entries, k)]_vars

\* a get returned an entry that is older than its TTL: earlier reads kept it alive
C2_Witness ==
    /\ lastOp.op = "get_hit"
    /\ LET e == EntryOf(cache.entries, lastOp.key) IN
       /\ e.ttl # NoneTTL
       /\ now - e.created_at > e.ttl
       /\ lastOp.ret = e.value

\* C3: the cache never holds more than max_size entries, and a set that overwrites
\* an existing key evicts nothing and leaves the set of keys and their number as
\* they were.
C3_Bounded ==
    [][/\ Len(cache'.entries) <= max_size
       /\ Cardinality(KeySet(cache')) = Len(cache'.entries)
       /\ lastOp'.op = "set_old" =>
             /\ lastOp'.evicted = NoKey
             /\ KeySet(cache') = KeySet(cache)
             /\ Len(cache'.entries) = Len(cache.entries)
             /\ cache'.stats.evictions = cache.stats.evictions]_vars

\* a full cache had one of its keys overwritten
C3_Witness ==
    /\ lastOp.op = "set_old"
    /\ Len(cache.entries) = max_size
    /\ cache.stats.evictions > 0

\* C4: under every interleaving of calls from several threads, whenever the lock
\* is free the Cache is what the calls yield when applied one at a time in the
\* order they took the lock, at most max_size entries are stored and stats.size is
\* their number; and every call that reaches its end returns what it returns in
\* that order.
C4_Serialized ==
    /\ lock = NoThread =>
          /\ cache = atomic
          /\ Len(cache.entries) <= conc_max_size
          /\ cache.stats.size = Len(cache.entries)
    /\ \A t \in Threads : thr[t].pc = 99 => thr[t].ret = thr[t].expect

\* two threads have made calls, one is inside a set that has stored its entry but
\* not yet evicted, and the other finished a call
C4_Witness ==
    /\ \E t \in Threads : thr[t].op = "set" /\ thr[t].pc = 2
                             /\ Len(cache.entries) > conc_max_size
    /\ \E t \in Threads : thr[t].pc = 0
    /\ cache.stats.size = conc_max_size

(***************************************************************************)
(* The analysis pipeline: status machine, parse errors, batches.           *)
(***************************************************************************)
StatusOrder ==
    <<PENDING, PARSING, ANALYZING_COMPLEXITY, SCANNING_SECURITY, AGGREGATING,
      COMPLETED, FAILED>>
Rank(s) == CHOOSE r \in 1..Len(StatusOrder) : StatusOrder[r] = s
StageOrder == <<"parse", "complexity", "scan", "aggregate">>
StageStatus ==
    <<PARSING, ANALYZING_COMPLEXITY, SCANNING_SECURITY, AGGREGATING>>

\* the statuses a run went through, and the stages it invoked, in order
Updates(t) == SelectSeq(t.log, LAMBDA e : e.ev = "update")
Stages(t) ==
    SelectSeq(t.log, LAMBDA e : e.ev \in {"parse", "complexity", "scan", "aggregate"})

\* every status is the successor of the one before it, or is FAILED
MovesForward(t) ==
    LET u == Updates(t) IN
    /\ u # <<>> => u[1].status = PENDING
    /\ \A j \in 1..(Len(u) - 1) :
          /\ u[j].status # FAILED
          /\ \/ u[j + 1].status = FAILED
             \/ Rank(u[j + 1].status) = Rank(u[j].status) + 1

\* the stages run in their order, each once, each under its own status
StagesInOrder(t) ==
    LET s == Stages(t) IN
    /\ Len(s) <= Len(StageOrder)
    /\ \A j \in 1..Len(s) : s[j].ev = StageOrder[j] /\ s[j].status = StageStatus[j]

\* a run that has returned a record stands at COMPLETED or FAILED
EndsTerminal(t) == t.pc = "returned" => t.progress.status \in {COMPLETED, FAILED}

\* C5 (as the spec states it): within one analyze_file run the status only
\* moves forward along PENDING, PARSING, ANALYZING_COMPLEXITY,
\* SCANNING_SECURITY, AGGREGATING, no stage is skipped on the way to
\* COMPLETED, the stages run in that order one at a time, and the run ends in
\* COMPLETED or FAILED.  The code returns on a parse error while the status
\* is still PARSING.
C5_StatusMachine ==
    \A i \in DOMAIN task :
        MovesForward(task[i]) /\ StagesInOrder(task[i]) /\ EndsTerminal(task[i])

\* the part of C5 that the code keeps: forward only, nothing skipped, stages
\* in order; a run that returns stands at COMPLETED, at FAILED, or at PARSING
\* with the record of a parse error
C5_ForwardAndInOrder ==
    \A i \in DOMAIN task :
        /\ MovesForward(task[i]) /\ StagesInOrder(task[i])
        /\ task[i].pc = "returned" =>
              \/ task[i].progress.status \in {COMPLETED, FAILED}
              \/ /\ task[i].progress.status = PARSING
                 /\ task[i].ret.error # NoError

\* the parser has run on file i and reported an error
ParseErrorSeen(i) ==
    /\ \E j \in 1..Len(task[i].log) : task[i].log[j].ev = "parse"
    /\ ~parse(files[i].code).raised
    /\ parse(files[i].code).value.error # NoError

\* C6: when parsing reports an error the complexity and security stages are
\* never invoked for that file, and the call returns at once a FileRecord
\* that carries the parse error, has no functions, zero metrics and a
\* quality_score of 0.
C6_ParseErrorShortCircuits ==
    \A i \in DOMAIN task : ParseErrorSeen(i) =>
        /\ \A j \in 1..Len(task[i].log) :
              task[i].log[j].ev \notin {"complexity", "scan", "bandit", "aggregate"}
        /\ task[i].pc = "returned"
        /\ task[i].ret = ErrorAnalysis(files[i].filename, parse(files[i].code).value.error)
        /\ task[i].ret.functions = <<>>
        /\ task[i].ret.total_functions = 0
        /\ task[i].ret.average_complexity = 0
        /\ task[i].ret.max_complexity = 0
        /\ task[i].ret.maintainability_index = 0
        /\ task[i].ret.total_security_issues = 0
        /\ quality_score(task[i].ret) = 0

\* a file with a syntax error has been analysed, with a callback listening
C6_Witness ==
    \E i \in DOMAIN task :
        /\ ParseErrorSeen(i)
        /\ callback.present
        /\ task[i].pc = "returned"
        /\ task[i].ret.error = "Syntax error at line 1: invalid syntax"

\* the file cannot be analysed: a parse error, or an exception in the parser
FileFails(fd) == parse(fd.code).raised \/ parse(fd.code).value.error # NoError

\* a batch result with one record per file, in the order of the files, the
\* files that fail flagged with an error
OneRecordPerFile(r) ==
    /\ ~r.raised
    /\ Len(r.files) = Len(files)
    /\ \A i \in 1..Len(files) :
          /\ r.files[i].filename = files[i].filename
          /\ FileFails(files[i]) => r.files[i].error # NoError
          /\ r.files[i].error = NoError => r.files[i].source_code = files[i].code

\* C7 (as the spec states it): analyse_batch, sequential or parallel,
\* returns exactly one FileRecord per input file in input order, a failing
\* file yields an error-flagged record at its position, and no exception
\* escapes analyse_batch.  A progress callback that raises at PENDING or at
\* FAILED takes the exception out of analyze_file and out of the batch.
C7_BatchNeverFails ==
    /\ phase \in {"parallel", "done"} => OneRecordPerFile(seqResult)
    /\ phase = "done" => OneRecordPerFile(parResult)

\* the part of C7 that the code keeps: without a callback that raises, both
\* kinds of batch give one record per file
C7_HoldsWithQuietCallback ==
    callback.raisesAt = {} => C7_BatchNeverFails

\* C8: the sequential and the parallel batch are observationally
\* equivalent: on the same files and the same callback they give the same
\* list of FileRecords, or both raise, whatever the interleaving of the
\* parallel tasks over the shared analysis cache.
C8_SequentialEqualsParallel ==
    phase = "done" => seqResult = parResult

\* both batches have returned records for two files with the same text and
\* name, and a scan was answered from the analysis cache
C8_Witness ==
    /\ phase = "done"
    /\ ~parResult.raised
    /\ Len(files) = 2
    /\ files[1] = files[2]
    /\ files[1].code = 3
    /\ acache.stats.hits > 0
    /\ acache.stats.misses > 1

(***************************************************************************)
(* The agents: errors stay inside analyze, every call starts afresh.       *)
(***************************************************************************)
\* the AgentState that call c returned
ReturnedState(c) == heap[calls[c].ret]

\* C9 (as the spec states it): for every agent kind, when an exception
\* occurs inside analyze the returned AgentState has its error set and
\* completed = false; so in every returned AgentState completed = true
\* implies that error is null.  The except branch of CodeAnalyzerAgent sets
\* completed = True.
C9_ErrorMeansNotCompleted ==
    \A c \in 1..Len(calls) : calls[c].pc = "done" =>
        /\ calls[c].exc # NoError =>
              ReturnedState(c).error # NoError /\ ~ReturnedState(c).completed
        /\ ReturnedState(c).completed => ReturnedState(c).error = NoError

\* the part of C9 that the code keeps: the five other kinds of agent
C9_HoldsForOtherKinds ==
    agentKind # "code_analyzer" => C9_ErrorMeansNotCompleted

\* the step is a step of an analyze call (not a message received in between)
AnalyzeStep == calls' # calls

\* C10: each analyze call starts from a fresh state: when a call returns,
\* the AgentState it returns holds only suggestions and messages made during
\* that call, and no step of a call changes an AgentState that an earlier
\* call returned.
C10_FreshStatePerCall ==
    [][AnalyzeStep =>
          /\ \A c \in 1..Len(calls) :
                calls[c].pc = "return" /\ calls'[c].pc = "done" =>
                   LET st == heap'[calls'[c].ret] IN
                   /\ \A j \in 1..Len(st.suggestions) : st.suggestions[j].call = c
                   /\ \A j \in 1..Len(st.messages) : st.messages[j].call = c
          /\ \A d \in 1..Len(calls) :
                calls[d].pc = "done" /\ (Len(calls') > Len(calls) \/ d < Len(calls)) =>
                   heap'[calls[d].ret] = heap[calls[d].ret]]_vars

\* a second call has returned its own suggestions and message, after a first
\* call that returned suggestions too and that was sent a message in between
C10_Witness ==
    /\ Len(calls) >= 2
    /\ calls[1].pc = "done" /\ calls[2].pc = "done"
    /\ calls[1].ret # calls[2].ret
    /\ ReturnedState(1).suggestions # <<>>
    /\ \E j \in 1..Len(ReturnedState(1).messages) : ReturnedState(1).messages[j].call = 0
    /\ ReturnedState(2).suggestions # <<>>
    /\ ReturnedState(2).messages # <<>>

(***************************************************************************)
(* The orchestrator: partial failure, and the order of the merge.          *)
(***************************************************************************)
\* the registered agents whose returned state is kept in list
InList(list) == {list[j] : j \in 1..Len(list)}

Scanners == {1, 2}

\* the analysis cache holds a live entry of scanner s for this text and name
LiveScanEntry(s, code, fname) ==
    /\ HasKey(acache.entries, cache_key(s, code, fname))
    /\ ~is_expired(EntryOf(acache.entries, cache_key(s, code, fname)), now)

\* task i looks its scan up in the cache and misses: the tool will be run
ScanMisses(i) == task[i].pc = "scan" /\ task'[i].pc = "scan_run"

\* C12 (as the spec states it): the security scan is memoized by content:
\* once a scan of a text has completed and its entry is neither expired nor
\* evicted, a later scan of the same text and file name is answered from the
\* cache without running the tool, through the same or another
\* SecurityScanner.  The key of the entry holds str(self), so another
\* scanner misses.
C12_ScanMemoizedByContent ==
    [][\A i \in 1..Len(files) :
          ScanMisses(i) =>
             \A s \in Scanners : ~LiveScanEntry(s, files[i].code, files[i].filename)]_vars

\* the part of C12 that the code keeps: the scanner that made the entry
C12_HoldsForSameScanner ==
    [][\A i \in 1..Len(files) :
          ScanMisses(i) =>
             ~LiveScanEntry(Scanner, files[i].code, files[i].filename)]_vars

(***************************************************************************)
(* The memoizing wrapper.                                                  *)
(***************************************************************************)
\* the cache holds an entry for the key that is not expired
LiveEntry(key) ==
    HasKey(cache.entries, key) /\ ~is_expired(EntryOf(cache.entries, key), now)

\* the step is a call of the decorated function
CallStep == nOps' = nOps + 1 /\ now' = now

\* C13 (as the spec states it): the wrapper executes the function once per
\* key: a call whose key has an entry that is neither expired nor evicted
\* returns the stored result without executing the function, whatever value
\* the function returned before; a call whose key has no such entry executes
\* the function.  The wrapper takes a stored None for a miss.
C13_OncePerKey ==
    [][CallStep =>
          LET call == wrapped'.last
              key  == cache_key_of(wrapped.key_func, "func", call.args)
          IN  IF LiveEntry(key)
              THEN ~call.executed /\ call.ret = EntryOf(cache.entries, key).value
              ELSE call.executed /\ call.ret = wrapped.func[call.args]]_vars

\* the part of C13 that the code keeps: the stored result is not None
C13_HoldsForStoredValues ==
    [][CallStep =>
          LET call == wrapped'.last
              key  == cache_key_of(wrapped.key_func, "func", call.args)
          IN  IF LiveEntry(key)
              THEN EntryOf(cache.entries, key).value # NoneVal =>
                      ~call.executed /\ call.ret = EntryOf(cache.entries, key).value
              ELSE call.executed /\ call.ret = wrapped.func[call.args]]_vars

(***************************************************************************)
(* Aggregation: the join of the stage outputs, and the quality score.      *)
(***************************************************************************)
\* the complexity entries of function pf: same name, same line range
OwnEntries(pf) ==
    SelectSeq(aggr.cr.functions,
              LAMBDA c : c.name = pf.name /\ c.line_start = pf.line_start
                         /\ c.line_end = pf.line_end)

\* C14 (as the spec states it): the aggregation joins parser and complexity
\* output by function name together with line range: every function record
\* carries the complexity and rank of its own entry, also when another
\* function has the same name, and complexity 0, rank "A", is_complex = false
\* when it has no entry.  The code looks the entry up by name alone.
C14_JoinByNameAndRange ==
    aggr.pc # "idle" /\ aggr.pc # "staged" =>
        \A j \in 1..Len(aggr.pr.functions) :
            LET pf  == aggr.pr.functions[j]
                fn  == aggr.out.functions[j]
                own == OwnEntries(pf)
            IN  IF own = <<>>
                THEN fn.complexity = 0 /\ fn.complexity_rank = "A" /\ ~fn.is_complex
                ELSE /\ fn.complexity = own[1].complexity
                     /\ fn.complexity_rank = own[1].rank
                     /\ fn.is_complex = (own[1].complexity > complexity_threshold)

\* no two functions of the text have the same name
DistinctNames ==
    \A j, k \in 1..Len(aggr.pr.functions) :
        aggr.pr.functions[j].name = aggr.pr.functions[k].name => j = k

\* the part of C14 that the code keeps: texts without a repeated name
C14_HoldsForDistinctNames ==
    DistinctNames => C14_JoinByNameAndRange

\* C15 (as the spec states it): quality_score is the maintainability index
\* (50 only when it is absent) minus 2 * max(0, average complexity - 10),
\* minus 10 per critical and 5 per high-severity finding, clamped to
\* [0, 100]; an aggregated record always has a maintainability index, so a
\* record with index 0 and no penalty scores 0.  The code takes an index of
\* 0 for an absent one and starts from 50.
C15_QualityScore ==
    aggr.pc = "scored" =>
        LET fa == aggr.out
            raw == fa.maintainability_index
                   - 2 * Max(0, fa.average_complexity - 10)
                   - 10 * fa.critical_security_issues
                   - 5 * fa.high_severity_issues
        IN  /\ aggr.score = Max(0, Min(100, raw))
            /\ aggr.score >= 0 /\ aggr.score <= 100

\* the part of C15 that the code keeps: a maintainability index above 0,
\* and the range of every score
C15_HoldsForPositiveIndex ==
    /\ aggr.pc = "scored" => aggr.score >= 0 /\ aggr.score <= 100
    /\ aggr.out.maintainability_index > 0 => C15_QualityScore

(***************************************************************************)
(* analyze_file called again on the same input.                            *)
(***************************************************************************)
\* the two calls on the same input are the last two of the run
FirstCall == Len(files) - 1
SecondCall == Len(files)

\* C16: analyze_file is idempotent on its input: two calls on the same text,
\* file name and changed lines, with no other use of the cache in between,
\* return the same FileAnalysis content, whether the scan of the second call
\* is answered from the cache or run again after the entry has expired.
C16_Idempotent ==
    cur > Len(files) =>
        seqResult.files[FirstCall] = seqResult.files[SecondCall]

\* both calls returned a record with a function and a finding in it, the
\* second call on a changed function; the entry of the first call expired in
\* between and the second call ran the scan again
C16_Witness ==
    /\ cur > Len(files)
    /\ files[SecondCall].code = 3
    /\ files[SecondCall].changed_lines = {2}
    /\ seqResult.files[SecondCall].functions # <<>>
    /\ seqResult.files[SecondCall].functions[1].is_changed
    /\ seqResult.files[SecondCall].total_security_issues = 1
    /\ now > analysis_ttl
    /\ \E j \in 1..Len(task[SecondCall].log) : task[SecondCall].log[j].ev = "bandit"
    /\ \E j \in 1..Len(task[FirstCall].log) : task[FirstCall].log[j].ev = "bandit"

\* the same, with the scan of the second call answered from the cache
C16_WitnessFromCache ==
    /\ cur > Len(files)
    /\ files[SecondCall].code = 3
    /\ seqResult.files[SecondCall].total_security_issues = 1
    /\ \E j \in 1..Len(task[FirstCall].log) : task[FirstCall].log[j].ev = "bandit"
    /\ \A j \in 1..Len(task[SecondCall].log) : task[SecondCall].log[j].ev # "bandit"

(***************************************************************************)
(* The progress callback.                                                  *)
(***************************************************************************)
\* the statuses of the events of one kind, in order
StatusesOf(t, ev) ==
    LET es == SelectSeq(t.log, LAMBDA e : e.ev = ev)
    IN  [j \in 1..Len(es) |-> es[j].status]

\* the statuses entered so far, and the statuses the callback was shown
Entered(t) == StatusesOf(t, "update")
Shown(t) == StatusesOf(t, "callback")

\* the status a finished run should have reported last
TerminalStatus(t) == IF t.ret.error = NoError THEN COMPLETED ELSE FAILED

\* C17 (as the spec states it): a progress callback is invoked at every
\* status transition with the status just entered, once for each of PENDING,
\* PARSING, ANALYZING_COMPLEXITY, SCANNING_SECURITY and AGGREGATING that is
\* entered and a last time with the terminal status: COMPLETED when the run
\* succeeded, FAILED when it failed.  The code does not call it on entering
\* PARSING nor on the return of a parse error.
C17_CallbackAtEveryTransition ==
    \A i \in DOMAIN task :
        callback.present =>
            /\ Shown(task[i]) = Entered(task[i])
            /\ task[i].pc = "returned" =>
                  /\ Shown(task[i]) # <<>>
                  /\ Shown(task[i])[Len(Shown(task[i]))] = TerminalStatus(task[i])

\* the part of C17 that the code keeps: the callback is shown every status
\* entered except PARSING, and a run that got past the parser ends with a
\* callback of COMPLETED or FAILED that agrees with its record
C17_HoldsButForParsing ==
    \A i \in DOMAIN task :
        callback.present =>
            /\ Shown(task[i]) =
                  SelectSeq(Entered(task[i]), LAMBDA st : st # PARSING)
            /\ task[i].pc = "returned" /\ ~ParseErrorSeen(i) =>
                  Shown(task[i])[Len(Shown(task[i]))] = TerminalStatus(task[i])

\* what analyze_file returns for a file when no callback is given
RecordOf(file_data) ==
    LET r == parse(file_data.code) IN
    IF r.raised THEN ErrorAnalysis(file_data.filename, r.exc)
    ELSE IF parse_failed(r.value) THEN ErrorAnalysis(file_data.filename, r.value.error)
    ELSE [aggregate_results(file_data.filename, r.value, calculate(file_data.code),
                            ScanRef(file_data.code, file_data.filename),
                            changed_lines_of(file_data))
             EXCEPT !.source_code = file_data.code]

\* the stages analyze_file runs for a file when no callback is given
StagesOf(file_data) ==
    LET r == parse(file_data.code) IN
    IF r.raised \/ parse_failed(r.value) THEN <<"parse">> ELSE StageOrder

\* the stages a run has invoked
StagesRun(t) == [j \in 1..Len(Stages(t)) |-> Stages(t)[j].ev]

\* C18 (as the spec states it): the progress callback is purely
\* observational: for the same input analyze_file returns the same
\* FileAnalysis and runs the same stages whatever the callback does, also
\* when it raises at any invocation, and no exception of the callback leaves
\* analyze_file.  The calls inside the try block are caught by the except
\* branch, which turns the run into a failed one; the first call and the
\* call in the except branch are not guarded at all.
C18_CallbackObservational ==
    \A i \in DOMAIN task :
        Finished(task[i]) =>
            /\ task[i].pc = "returned"
            /\ task[i].ret = RecordOf(files[i])
            /\ StagesRun(task[i]) = StagesOf(files[i])

\* the part of C18 that the code keeps: no callback, or one that returns
C18_HoldsForQuietCallback ==
    callback.raisesAt = {} => C18_CallbackObservational

(***************************************************************************)
(* Failures of the complexity and security stages.                         *)
(***************************************************************************)
\* the parser returned the functions of the text without an error
ParseSucceeds(code) == ~parse(code).raised /\ ~parse_failed(parse(code).value)

C19_WitnessScanFails ==
    /\ task # <<>>
    /\ task[1].pc = "returned"
    /\ files[1].code = 6
    /\ task[1].ret.error = NoError
    /\ task[1].ret.functions[1].complexity = 12
    /\ task[1].ret.total_security_issues = 0

(***************************************************************************)
(* Failures of the external tool inside the security scan.                 *)
(***************************************************************************)
\* the failures of the tool that the claim names
NamedFailures == {"timeout", "not_installed", "bad_json"}

\* every count of issues in the metrics is zero
NoIssueCounted(m) ==
    m.total_issues = 0 /\ m.high_severity = 0 /\ m.critical_issues = 0

\* C20 (as the spec states it): a timeout of the tool, a tool that is not
\* installed and output that cannot be parsed are not fatal: scan returns a
\* result with zero findings, metrics that are all zero and a non-empty
\* errors list, and the temporary file is deleted on each of these paths and
\* on success.  The metrics of such a result still count the lines of the
\* text in total_lines_scanned.
C20_ToolFailuresAllZero ==
    scanCall.pc = "returned" /\ scanCall.code # 0 =>
        /\ scanCall.tool \in NamedFailures =>
              /\ scanCall.result.issues = <<>>
              /\ NoIssueCounted(scanCall.result.metrics)
              /\ scanCall.result.metrics.total_lines_scanned = 0
              /\ scanCall.result.errors # <<>>
        /\ scanCall.tool \in NamedFailures \cup {"findings"} => ~scanCall.on_disk

\* C20 (amended): on each of the three failures scan returns a result with
\* zero findings, zero in every count of issues, total_lines_scanned equal to
\* the number of lines of the text, and a non-empty errors list (every
\* except clause of _run_bandit returns, none raises); the temporary file is
\* deleted on each of these paths and on success.
C20_ToolFailuresNonFatal ==
    scanCall.pc = "returned" /\ scanCall.code # 0 =>
        /\ scanCall.tool \in NamedFailures =>
              /\ scanCall.result.issues = <<>>
              /\ NoIssueCounted(scanCall.result.metrics)
              /\ scanCall.result.metrics.total_lines_scanned = LinesOf(scanCall.code)
              /\ scanCall.result.errors # <<>>
        /\ scanCall.tool \in NamedFailures \cup {"findings"} => ~scanCall.on_disk

\* a scan of a text with a shell call has returned after the tool timed out
C20_Witness ==
    /\ scanCall.pc = "returned"
    /\ scanCall.code = 3
    /\ scanCall.tool = "timeout"
    /\ scanCall.temp_file # "None"
    /\ ~scanCall.on_disk
    /\ scanCall.result.errors # <<>>

(***************************************************************************)
(* The agents and the LLM client.                                          *)
(***************************************************************************)
\* call c asked the LLM and the client raised its terminal error
LLMFailed(c) == calls[c].input.reply = "terminal_error"

\* C21 (as the spec states it): whenever the LLM client raises its terminal
\* error during an analyze call, the AgentState that the call returns has its
\* error field set and completed = false.  call_llm catches the error and
\* returns "", and the call goes on to completed = True.
C21_LLMErrorVisible ==
    \A c \in 1..Len(calls) : calls[c].pc = "done" /\ LLMFailed(c) =>
        ReturnedState(c).error # NoError /\ ~ReturnedState(c).completed

\* what the code does instead, for every agent whose analyze gets past the
\* LLM call: the run is reported as completed, without an error
C21_LLMErrorSwallowed ==
    \A c \in 1..Len(calls) :
        calls[c].pc = "done" /\ LLMFailed(c) /\ ~AlwaysFailsAfterLLM(agentKind) =>
            ReturnedState(c).error = NoError /\ ReturnedState(c).completed

(***************************************************************************)
(* The LLM client: retries, rate limiters.                                 *)
(***************************************************************************)
\* the positions of the log of the call at which a request was sent
Sends == {i \in 1..Len(llm.call.log) : llm.call.log[i].ev = "send"}
\* the positions at which a request was rejected with HTTP 429
Rejections == {i \in Sends : llm.call.log[i].on = "429"}
\* a call is under way
InCall == llm.call.pc # "done"

\* the part of C22 that holds in every state of a generate call
RetryIsBounded ==
    llm.call.op = "generate" =>
        /\ Cardinality(Sends) <= max_retries
        /\ \A i, j \in Sends : i < j => llm.call.log[i].on # "ok"
        /\ \A i \in Rejections :
              i < Len(llm.call.log) =>
                 /\ llm.call.log[i + 1].ev = "sleep"
                 /\ llm.call.log[i + 1].n = 2 ^ (llm.call.log[i].n - 1)
        /\ ~InCall /\ Cardinality(Rejections) = max_retries =>
              llm.call.result = "Max retries exceeded"
        /\ ~InCall => llm.call.result \in
              {"response", "HTTPStatusError", "Max retries exceeded"}

\* C22: _retry_request sends the request at most max_retries (3) times,
\* sends nothing after the first successful response, sleeps 1, 2 and 4
\* seconds after the first, second and third rate-limit rejection, and
\* raises "Max retries exceeded" once every attempt has been rejected; and
\* every call of generate eventually returns or raises.
C22_BoundedRetry == []RetryIsBounded /\ (InCall ~> ~InCall)

\* a generate call has raised after three rejections and sleeps of 1, 2, 4 s
C22_Witness ==
    /\ llm.call.op = "generate" /\ ~InCall
    /\ llm.call.result = "Max retries exceeded"
    /\ Cardinality(Rejections) = max_retries
    /\ \E i, j, k \in 1..Len(llm.call.log) :
          /\ i < j /\ j < k
          /\ llm.call.log[i] = [ev |-> "sleep", on |-> "retry", n |-> 1]
          /\ llm.call.log[j] = [ev |-> "sleep", on |-> "retry", n |-> 2]
          /\ llm.call.log[k] = [ev |-> "sleep", on |-> "retry", n |-> 4]

\* a generate call has returned the response of its second attempt
C22_WitnessSecondAttempt ==
    /\ llm.call.op = "generate" /\ ~InCall
    /\ llm.call.result = "response"
    /\ Cardinality(Sends) = 2

\* the log of the call holds, between the request sent before position i (or
\* the start of the call) and position i, a consume of n on that bucket
ConsumedFor(i, on, n) ==
    \E j \in 1..(i - 1) :
        /\ llm.call.log[j] = [ev |-> "consume", on |-> on, n |-> n]
        /\ \A k \in Sends : ~(j < k /\ k < i)

\* C23 (as the spec states it): each HTTP request the client sends, from
\* generate (each retry attempt included) and from generate_stream, is
\* preceded by a consume on the request-count bucket and a consume of the
\* estimated token count on the token bucket.  generate_stream never touches
\* the token bucket, and the retries of generate consume nothing.
C23_BothLimitersGateEveryRequest ==
    \A i \in Sends :
        /\ ConsumedFor(i, "request_bucket", 1)
        /\ ConsumedFor(i, "token_bucket", llm.call.tokens)

\* what the code keeps: the first request of every call comes after a consume
\* on the request-count bucket, and the first request of a generate call
\* after a consume of the estimated tokens as well
C23_FirstRequestIsGated ==
    \A i \in Sends :
        (\A k \in Sends : i <= k) =>
            /\ ConsumedFor(i, "request_bucket", 1)
            /\ llm.call.op = "generate" =>
                  ConsumedFor(i, "token_bucket", llm.call.tokens)

(***************************************************************************)
(* The diff-driven entry point.                                            *)
(***************************************************************************)
\* the files of the diff that the batch is to hold a record for
Analysable ==
    SelectSeq(prCall.diff_text,
              LAMBDA e : /\ e.filename[2] = ".py"
                         /\ e.status = "modified"
                         /\ e.filename \in prCall.readable)

\* C24 (as the spec states it): analyze_pr_changes returns a batch result
\* made of exactly the files of the diff that are Python files, neither
\* deleted nor binary (and that the accessor could read), each with its
\* changed line numbers; a diff without Python files returns an empty batch
\* result.  The call raises TypeError on every diff.
C24_OneRecordPerPythonFile ==
    prCall.pc = "done" =>
        /\ ~prCall.result.raised
        /\ Len(prCall.result.value) = Len(Analysable)
        /\ \A i \in 1..Len(Analysable) :
              /\ prCall.result.value[i].filename = Analysable[i].filename
              /\ prCall.result.value[i].changed_lines = Analysable[i].added

\* what the code does on every diff, with or without Python files
C24_AlwaysRaises ==
    prCall.pc = "done" => prCall.result.raised /\ prCall.result.exc = "TypeError"

(***************************************************************************)
(* Aggregation: which functions a diff has changed.                        *)
(***************************************************************************)
\* _aggregate_results has returned
Aggregated == aggr.pc \in {"aggregated", "scored"}

\* C25: for every function of the analysed file, is_changed is true iff some
\* line number of the changed-line set lies within [line_start, line_end],
\* both ends included; with an empty changed-line set is_changed is false
\* for every function and for the file.
C25_DiffAwareness ==
    Aggregated =>
        /\ Len(aggr.out.functions) = Len(aggr.pr.functions)
        /\ \A j \in 1..Len(aggr.out.functions) :
              LET fn == aggr.out.functions[j] IN
              /\ fn.line_start = aggr.pr.functions[j].line_start
              /\ fn.line_end = aggr.pr.functions[j].line_end
              /\ fn.is_changed <=>
                    \E l \in fn.line_start..fn.line_end : l \in aggr.changed_lines
        /\ aggr.changed_lines = {} =>
              /\ ~aggr.out.is_changed
              /\ \A j \in 1..Len(aggr.out.functions) : ~aggr.out.functions[j].is_changed

\* the changed line is the last line of the first function: that function is
\* changed, the one after it is not
C25_Witness ==
    /\ Aggregated
    /\ aggr.changed_lines = {3}
    /\ Len(aggr.out.functions) = 2
    /\ aggr.out.functions[1].is_changed
    /\ ~aggr.out.functions[2].is_changed
    /\ aggr.out.is_changed

\* no changed line: nothing is changed
C25_WitnessNoChange ==
    /\ Aggregated
    /\ aggr.changed_lines = {}
    /\ Len(aggr.out.functions) = 2

(***************************************************************************)
(* The memoizing wrapper of cache_by_hash.                                 *)
(***************************************************************************)
\* the keys of cache_by_hash tell two calls apart iff the contents or the
\* remaining arguments differ
KeysFollowContentAndRest ==
    \A a, b \in Args :
        key_func_by_hash(a) = key_func_by_hash(b) <=> a[1] = b[1] /\ a[2] = b[2]

\* the step is a call of a function decorated with cache_by_hash
HashedCallStep == CallStep /\ wrapped.key_func = "hash"

\* C26 (as the spec states it): two calls of a function decorated with
\* cache_by_hash map to the same cache entry iff their first arguments have
\* equal content and their remaining arguments equal representation; the
\* same content with a different second argument is computed and cached on
\* its own, and the same content with the same remaining arguments executes
\* the function once.  A function that returns None is executed every time.
C26_KeyedByHashAndRest ==
    [][HashedCallStep =>
          LET call == wrapped'.last
              key  == key_func_by_hash(call.args)
          IN  /\ KeysFollowContentAndRest
              /\ IF LiveEntry(key)
                 THEN ~call.executed /\ call.ret = EntryOf(cache.entries, key).value
                 ELSE /\ call.executed
                      /\ HasKey(cache'.entries, key)
                      /\ EntryOf(cache'.entries, key).value = wrapped.func[call.args]]_vars

\* the part of C26 that the code keeps: the keys, and one execution per key
\* where the stored result is not None
C26_HoldsForStoredValues ==
    [][HashedCallStep =>
          LET call == wrapped'.last
              key  == key_func_by_hash(call.args)
          IN  /\ KeysFollowContentAndRest
              /\ IF LiveEntry(key) /\ EntryOf(cache.entries, key).value # NoneVal
                 THEN ~call.executed /\ call.ret = EntryOf(cache.entries, key).value
                 ELSE /\ call.executed
                      /\ HasKey(cache'.entries, key)
                      /\ EntryOf(cache'.entries, key).value = wrapped.func[call.args]]_vars

(***************************************************************************)
(* cleanup_expired.                                                        *)
(***************************************************************************)
\* the step is a call of cleanup_expired
CleanupStep == nOps' = nOps + 1 /\ lastOp'.op = "cleanup"

\* the entries of the cache whose TTL has run out since their last access
ExpiredNow ==
    {i \in 1..Len(cache.entries) :
        /\ cache.entries[i].ttl # NoneTTL
        /\ now - cache.entries[i].last_accessed > cache.entries[i].ttl}

\* C27: cleanup_expired removes exactly the entries that are expired at the
\* time of the call and returns their number; the entries that are not
\* expired or have no TTL keep their value, their last-access time and their
\* place in the recency order, and the hit, miss and eviction counters stay
\* as they were.
C27_CleanupRemovesExpiredOnly ==
    [][CleanupStep =>
          /\ lastOp'.ret = Cardinality(ExpiredNow)
          /\ cache'.entries =
                SelectSeq(cache.entries, LAMBDA e :
                    \E i \in (1..Len(cache.entries)) \ ExpiredNow : cache.entries[i] = e)
          /\ \A i \in ExpiredNow : ~HasKey(cache'.entries, cache.entries[i].key)
          /\ cache'.stats.hits = cache.stats.hits
          /\ cache'.stats.misses = cache.stats.misses
          /\ cache'.stats.evictions = cache.stats.evictions]_vars

\* a cleanup has removed an expired entry and left another one in place
C27_Witness ==
    /\ lastOp.op = "cleanup"
    /\ lastOp.ret >= 1
    /\ cache.entries # <<>>

\* a cleanup has left in place an entry whose TTL has just been reached
C27_WitnessAtTTL ==
    /\ lastOp.op = "cleanup"
    /\ \E i \in 1..Len(cache.entries) :
          /\ cache.entries[i].ttl # NoneTTL
          /\ now - cache.entries[i].last_accessed = cache.entries[i].ttl

(***************************************************************************)
(* Overlapping analyze calls on one agent.                                 *)
(***************************************************************************)
\* C28 (as the spec states it): when analyze calls on one agent interleave at
\* their awaits, each call returns an AgentState that holds the suggestions
\* and messages of that call only, and no two calls return the same object.
\* Every call works on self.state, which the latest reset_state has rebound.
C28_OverlappingCallsDoNotMix ==
    [][\A c \in 1..Len(calls) :
          calls[c].pc = "return" /\ calls'[c].pc = "done" =>
             LET st == heap'[calls'[c].ret] IN
             /\ \A j \in 1..Len(st.suggestions) : st.suggestions[j].call = c
             /\ \A j \in 1..Len(st.messages) : st.messages[j].call = c
             /\ \A d \in 1..Len(calls) :
                   d # c /\ calls[d].pc = "done" => calls[d].ret # calls'[c].ret]_vars

(***************************************************************************)
(* The TokenBucket and its rate.                                           *)
(***************************************************************************)
\* the tokens granted by the i-th to the j-th consume call that returned
RECURSIVE GrantedBetween(_, _)
GrantedBetween(i, j) ==
    IF i > j THEN 0 ELSE bucket.granted[i].tokens + GrantedBetween(i + 1, j)

\* the allowance stays within [0, rate]
AllowanceInRange == 0 <= bucket.b.allowance /\ bucket.b.allowance <= bucket.b.rate

\* C29 (as the spec states it): the allowance stays within [0, rate], and
\* over any time interval of length t the consume calls that returned in it
\* were granted at most rate + t * rate / per tokens in total.  consume
\* stamps last_check before it sleeps, so the time slept is credited again
\* by the next call.
C29_RateEnforced ==
    /\ AllowanceInRange
    /\ \A i, j \in 1..Len(bucket.granted) :
          i <= j =>
             GrantedBetween(i, j) * bucket.b.per <=
                bucket.b.rate * bucket.b.per
                   + (bucket.granted[j].at - bucket.granted[i].at) * bucket.b.rate

\* the part of C29 that the code keeps
C29_AllowanceWithinRange == AllowanceInRange

(***************************************************************************)
(* The range of the progress.                                              *)
(***************************************************************************)
\* the percentages the callback was handed, in order
PercentagesShown(t) ==
    LET es == SelectSeq(t.log, LAMBDA e : e.ev = "callback")
    IN  [j \in 1..Len(es) |-> es[j].pct]

\* the percentages handed to the callback never go down
NonDecreasing(t) ==
    \A j, k \in 1..Len(PercentagesShown(t)) :
        j <= k => PercentagesShown(t)[j] <= PercentagesShown(t)[k]

\* C30 (as the spec states it): in every state of an analyze_file run
\* completed_steps is at most total_steps (4); the percentage handed to the
\* progress callback never goes down, never exceeds 100 and is exactly 100
\* at COMPLETED.  The update to COMPLETED names a fifth step.
C30_ProgressWithinRange ==
    \A i \in DOMAIN task :
        /\ task[i].progress.completed_steps <= total_steps
        /\ NonDecreasing(task[i])
        /\ \A j \in 1..Len(task[i].log) :
              task[i].log[j].ev = "callback" =>
                 /\ task[i].log[j].pct <= 100
                 /\ task[i].log[j].status = COMPLETED => task[i].log[j].pct = 100

\* the part of C30 that the code keeps: the percentage never goes down, and
\* the steps stay within total_steps until the update to COMPLETED
C30_HoldsBeforeCompleted ==
    \A i \in DOMAIN task :
        /\ NonDecreasing(task[i])
        /\ task[i].progress.completed_steps <= total_steps + 1
        /\ task[i].progress.completed_steps > total_steps =>
              \E j \in 1..Len(Entered(task[i])) : Entered(task[i])[j] = COMPLETED

=============================================================================
